---- MODULE Spec2Model ----
(***************************************************************************)
(* A model of robt, the read-only btree index: the bottom-up builder       *)
(* pipeline (BuildScan, BuildZZ, BuildMZ, BuildMM, build_tree,             *)
(* meta_blocks) and the reader (Reader::from_root, get, iter, Iter::next)  *)
(* in Spec; a Flusher with its thread, the file it appends to and the      *)
(* advisory locks on it in FlusherSpec; the Index values over the files of *)
(* a finished build, with open, try_clone, drop and purge, in PurgeSpec.   *)
(*                                                                         *)
(* Bytes are modelled by their count.  A block of the index file is the    *)
(* list of entries encoded into it, the number of bytes that encoding      *)
(* takes (array marker, entries, break) and the length it was resized to.  *)
(* A read of n bytes at fpos decodes a block when the break marker lies    *)
(* within the n bytes read.                                                *)
(***************************************************************************)
EXTENDS Integers, Sequences, FiniteSets, TLC

VARIABLES
    config,     \* Config: z_blocksize, m_blocksize, delta_ok, value_in_vlog
    seqno_arg,  \* the `seqno: Option<u64>` argument of build_index
    source,     \* the entries the source iterator yields, in order
    scan,       \* BuildScan: position in source, lookaside entry, counters
    slots,      \* BuildMZ.entry (level 1) and BuildMM.entry (levels 2..Top)
    frames,     \* locals of the next() call in progress at each level
    iflush,     \* index-file flusher: fpos and the blocks appended so far
    vflush,     \* value-log flusher: present?, fpos, segments appended
    builder,    \* Builder: phase, root, stats
    reader,     \* Reader of an opened Index: status, root block
    got,        \* the last Reader::get: key asked and its result
    iter,       \* the Iter in use: stack, bound, push-back, yielded entries
    fs,         \* the files: path -> inode, inode contents, advisory locks
    flusher,    \* a Flusher as its owner's thread sees it, and that thread
    chan,       \* the channel between the owner and the flusher thread
    worker,     \* the thread running thread_flush
    purger,     \* an Index on the earlier file at the path, and its purge
    hist,       \* what was on disk at construction and what was handed over
    handles,    \* the Index values alive on a finished index
    calls,      \* what a caller of BuildScan did: entries returned, pushed
    metablk,    \* a meta block: what meta_blocks wrote, what open_file read
    validated,  \* what Index::validate returned
    compacted,  \* the index that Index::compact consumed, and its cutoff
    named,      \* a logical name, the file name made of it, the name read back
    leaf        \* one BuildZZ step taken apart: what each file received

\* the builder and the reader over one build
bvars == <<config, seqno_arg, source, scan, slots, frames, iflush, vflush,
           builder, reader, got, iter>>
\* the files, a Flusher with its thread, and the Index values
fvars == <<fs, flusher, chan, worker, purger, hist, handles>>

\* a caller of BuildScan, a meta block, validate, compact, a file name
xvars == <<calls, metablk, validated, compacted, named, leaf>>

vars == <<config, seqno_arg, source, scan, slots, frames, iflush, vflush,
          builder, reader, got, iter,
          fs, flusher, chan, worker, purger, hist, handles,
          calls, metablk, validated, compacted, named, leaf>>

----------------------------------------------------------------------------
(* Bounds of the model. *)

\* keys are 1..MaxKey; a source is a strictly ascending choice of them
MaxKey == 3
\* a build stops being stepped once the index file holds this many blocks
MaxBlocks == 34

(* Program constants. *)

\* (0..28).fold(...) in build_tree: the number of stacked BuildMM levels
MMLevels == 28
\* MARKER_BLOCK_SIZE
MARKER_BLOCK_SIZE == 4096

(* Encoded lengths.  The codec is external (mkit::cbor); only lengths      *)
(* matter to the packing.                                                  *)

\* Cbor::Major4(Info::Indefinite, vec![]).encode(): one byte, 0x9f
HeaderLen == 1
\* into_cbor_bytes(SimpleValue::Break): one byte, 0xff
BreakLen == 1
\* encoded length of a key inside an entry (fixed-width keys)
KeyLen == 1
\* into_cbor_bytes(Entry::new_mm(key, fpos)) / new_mz: key and fpos
MEntryLen == 2
\* encoded length of a value or delta reference {fpos, length} in a leaf
RefLen == 1
\* encoded length of one delta payload in the value log
DeltaLen == 1

----------------------------------------------------------------------------
(* Option<T> is a sequence of length 0 or 1. *)

None == <<>>
Some(x) == <<x>>
IsSome(o) == o # <<>>
Unwrap(o) == o[1]

Max(a, b) == IF a >= b THEN a ELSE b
Min(a, b) == IF a <= b THEN a ELSE b

\* level 1 is BuildMZ, levels 2..Top are the BuildMM stack
Top == MMLevels + 1
Levels == 1..Top

----------------------------------------------------------------------------
(* scans.rs: BuildScan *)

\* BuildScan::new(iter, 0)
NewScan == [pos |-> 1, entry |-> None, seqno |-> 0, n_count |-> 0, n_deleted |-> 0]

\* a next that would count the pushed entry again
ScanNext_CountsReplay(s) ==
    IF IsSome(s.entry)
    THEN [scan |-> [s EXCEPT !.entry = None, !.n_count = @ + 1],
          item |-> s.entry]
    ELSE IF s.pos > Len(source)
    THEN [scan |-> s, item |-> None]
    ELSE LET e == source[s.pos]
         IN [scan |-> [s EXCEPT !.pos = @ + 1,
                                !.seqno = Max(@, e.seqno),
                                !.n_count = @ + 1,
                                !.n_deleted = IF e.deleted THEN @ + 1 ELSE @],
             item |-> Some(e)]

\* BuildScan::next: the pushed entry first, else the next source entry, counted
ScanNext(s) ==
    IF IsSome(s.entry)
    THEN [scan |-> [s EXCEPT !.entry = None], item |-> s.entry]
    ELSE IF s.pos > Len(source)
    THEN [scan |-> s, item |-> None]
    ELSE LET e == source[s.pos]
         IN [scan |-> [s EXCEPT !.pos = @ + 1,
                                !.seqno = Max(@, e.seqno),
                                !.n_count = @ + 1,
                                !.n_deleted = IF e.deleted THEN @ + 1 ELSE @],
             item |-> Some(e)]

\* BuildScan::push
ScanPush(s, e) == [s EXCEPT !.entry = Some(e)]

----------------------------------------------------------------------------
(* flush.rs: Flusher.  request() sends the block to the worker and waits   *)
(* for the worker's reply, the file position after the write.              *)

\* Flusher::new(path, create = true, ..): a fresh file, fpos 0
NewFlusher == [file |-> TRUE, fpos |-> 0, data |-> <<>>]
\* Flusher::empty()
EmptyFlusher == [file |-> FALSE, fpos |-> 0, data |-> <<>>]

\* to_fpos().unwrap_or(0)
ToFpos(f) == IF f.file THEN f.fpos ELSE 0

\* Flusher::flush(data) on a Flusher::File: items appended, fpos advanced
Flush(f, items, nbytes) ==
    [f EXCEPT !.fpos = @ + nbytes, !.data = @ \o items]

\* Flusher::flush(block) on the index file: the block lands at f.fpos
FlushBlock(f, b) ==
    [f EXCEPT !.fpos = @ + b.len, !.data = Append(@, [b EXCEPT !.fpos = f.fpos])]

----------------------------------------------------------------------------
(* entry.rs, vlog.rs: entries on disk *)

NoValue == [native |-> TRUE, payload |-> 0, vlen |-> 0, seqno |-> 0,
            deleted |-> FALSE, fpos |-> 0, length |-> 0]

\* Entry::new_mm / Entry::new_mz
NewM(t, key, fpos) ==
    [t |-> t, key |-> key, fpos |-> fpos, value |-> NoValue, deltas |-> <<>>]

\* db::Entry::drain_deltas
DrainDeltas(e) == [e EXCEPT !.deltas = <<>>]

\* Delta::into_reference for each delta in turn, the references: the i-th
\* delta lands at dpos + (i-1) * DeltaLen
DeltaRefs(deltas, dpos) ==
    [i \in 1..Len(deltas) |->
        [seqno |-> deltas[i].seqno, native |-> FALSE, diff |-> 0,
         fpos |-> dpos + (i - 1) * DeltaLen, length |-> DeltaLen]]

\* Delta::into_reference for each delta in turn, the bytes to append
DeltaSegs(deltas, dpos) ==
    [i \in 1..Len(deltas) |->
        [fpos |-> dpos + (i - 1) * DeltaLen, len |-> DeltaLen,
         kind |-> "delta", payload |-> deltas[i].diff]]

\* Value::into_reference(vfpos), the reference: Value::R with fpos = vfpos
\* and length = the encoded length of the value
ValueRef(e, vfpos) ==
    [native |-> FALSE, payload |-> 0, vlen |-> 0, seqno |-> e.seqno,
     deleted |-> e.deleted, fpos |-> vfpos, length |-> e.vlen]

\* Value::into_reference(vfpos), the bytes to append to the value log
ValueSeg(e, vfpos) ==
    [fpos |-> vfpos, len |-> e.vlen, kind |-> "value", payload |-> e.value]

\* Entry::from(db::Entry) followed by Entry::into_reference(vfpos, vlog):
\* the leaf entry, the value-log bytes (as segments) and their length
IntoReference(e, vfpos, vlog) ==
    LET vbytes == IF vlog THEN e.vlen ELSE 0
        value == IF vlog
                 THEN ValueRef(e, vfpos)
                 ELSE [native |-> TRUE, payload |-> e.value, vlen |-> e.vlen,
                       seqno |-> e.seqno, deleted |-> e.deleted,
                       fpos |-> 0, length |-> 0]
        vseg == IF vlog THEN <<ValueSeg(e, vfpos)>> ELSE <<>>
        hpos == vfpos + vbytes
        dpos == hpos + HeaderLen
        bpos == dpos + Len(e.deltas) * DeltaLen
    IN [entry |-> [t |-> "ZZ", key |-> e.key, fpos |-> 0, value |-> value,
                   deltas |-> DeltaRefs(e.deltas, dpos)],
        vsegs |-> vseg
                  \o <<[fpos |-> hpos, len |-> HeaderLen, kind |-> "hdr", payload |-> 0]>>
                  \o DeltaSegs(e.deltas, dpos)
                  \o <<[fpos |-> bpos, len |-> BreakLen, kind |-> "brk", payload |-> 0]>>,
        vlen |-> bpos + BreakLen - vfpos]

\* util::into_cbor_bytes(e).len() for a leaf entry
ZEntryLen(ze) ==
    KeyLen + (IF ze.value.native THEN ze.value.vlen ELSE RefLen)
           + Len(ze.deltas) * RefLen

\* a block as posted: vec.resize(blocksize, 0) pads or truncates
Block(kind, entries, used, blocksize) ==
    [kind |-> kind, entries |-> entries, used |-> used, len |-> blocksize,
     fpos |-> 0]

\* blocksize.saturating_sub(1)
BlockSize(blocksize) == IF blocksize >= 1 THEN blocksize - 1 ELSE 0

----------------------------------------------------------------------------
(* build.rs: the pipeline.  A pipeline state p holds scan, slots, frames,  *)
(* iflush, vflush, and what the topmost level handed to build_tree:        *)
(* p.returned and p.result; p.panicked when an unreachable!() was hit.     *)

\* the locals of a BuildMZ/BuildMM::next call at its start:
\* mblock holds the array marker, first_key = None, curr_fpos = None, n = 0
FreshFrame == [entries |-> <<>>, blen |-> HeaderLen, first_key |-> None,
               curr_fpos |-> None, n |-> 0]

RECURSIVE ZZLoop_StaleVfpos(_)
\* a loop that would not advance vfpos past the bytes of an accepted entry
ZZLoop_StaleVfpos(a) ==
    LET r == ScanNext(a.scan)
    IN IF r.item = None
       THEN [a EXCEPT !.scan = r.scan]
       ELSE LET pulled == Unwrap(r.item)
                entry == IF ~config.delta_ok THEN DrainDeltas(pulled) ELSE pulled
                fk == IF a.first_key = None THEN Some(entry.key) ELSE a.first_key
                ref == IntoReference(entry, a.vfpos, config.value_in_vlog)
                ilen == ZEntryLen(ref.entry)
            IN IF a.zlen + ilen > BlockSize(config.z_blocksize)
               THEN [a EXCEPT !.scan = ScanPush(r.scan, entry), !.first_key = fk]
               ELSE ZZLoop_StaleVfpos([a EXCEPT !.scan = r.scan,
                                                !.first_key = fk,
                                                !.zentries = Append(@, ref.entry),
                                                !.zlen = @ + ilen,
                                                !.vsegs = @ \o ref.vsegs])

RECURSIVE ZZLoop(_)
\* the loop of BuildZZ::next over a = [scan, zentries, zlen, vsegs, vfpos,
\* first_key]: pull, drain deltas, reference, push back what does not fit
ZZLoop(a) ==
    LET r == ScanNext(a.scan)
    IN IF r.item = None
       THEN [a EXCEPT !.scan = r.scan]
       ELSE LET pulled == Unwrap(r.item)
                entry == IF ~config.delta_ok THEN DrainDeltas(pulled) ELSE pulled
                fk == IF a.first_key = None THEN Some(entry.key) ELSE a.first_key
                ref == IntoReference(entry, a.vfpos, config.value_in_vlog)
                ilen == ZEntryLen(ref.entry)
            IN IF a.zlen + ilen > BlockSize(config.z_blocksize)
               THEN [a EXCEPT !.scan = ScanPush(r.scan, entry), !.first_key = fk]
               ELSE ZZLoop([a EXCEPT !.scan = r.scan,
                                     !.first_key = fk,
                                     !.zentries = Append(@, ref.entry),
                                     !.zlen = @ + ilen,
                                     !.vsegs = @ \o ref.vsegs,
                                     !.vfpos = @ + ref.vlen])

\* BuildZZ::next: [p, item]; item is None or Some([key, fpos])
BuildZZNext(p) ==
    LET a == ZZLoop([scan |-> p.scan, zentries |-> <<>>, zlen |-> HeaderLen,
                     vsegs |-> <<>>, vfpos |-> ToFpos(p.vflush),
                     first_key |-> None])
    IN IF a.first_key = None
       THEN [p |-> [p EXCEPT !.scan = a.scan], item |-> None]
       ELSE LET zblock == Block("Z", a.zentries, a.zlen + BreakLen,
                                config.z_blocksize)
                fpos == ToFpos(p.iflush)
            IN IF ~p.vflush.file
               \* Flusher::None => unreachable!() in Flusher::flush
               THEN [p |-> [p EXCEPT !.scan = a.scan, !.panicked = TRUE],
                     item |-> None]
               ELSE [p |-> [p EXCEPT
                              !.scan = a.scan,
                              !.vflush = Flush(@, a.vsegs, a.vfpos - ToFpos(p.vflush)),
                              !.iflush = FlushBlock(@, zblock)],
                     item |-> Some([key |-> Unwrap(a.first_key), fpos |-> fpos])]

\* a BuildMZ::next that would hand a lone child up without a block of its own
FinishMZ_ChildIsRoot(p, f) ==
    IF Len(f.entries) = 1
    THEN [p |-> p,
          item |-> Some([key |-> Unwrap(f.first_key), fpos |-> f.entries[1].fpos])]
    ELSE LET mblock == Block("M", f.entries, f.blen + BreakLen, config.m_blocksize)
         IN [p |-> [p EXCEPT !.iflush = FlushBlock(@, mblock)],
             item |-> Some([key |-> Unwrap(f.first_key), fpos |-> ToFpos(p.iflush)])]

\* the tail of BuildMZ::next: break marker, resize, flush, (first_key, fpos)
FinishMZ(p, f) ==
    LET mblock == Block("M", f.entries, f.blen + BreakLen, config.m_blocksize)
        fpos == ToFpos(p.iflush)
    IN [p |-> [p EXCEPT !.iflush = FlushBlock(@, mblock)],
        item |-> Some([key |-> Unwrap(f.first_key), fpos |-> fpos])]

\* a BuildMM::next that would read the position of its block only after
\* the flush, when the flusher already stands behind the block
FinishMM_FposAfterFlush(p, f) ==
    LET mblock == Block("M", f.entries, f.blen + BreakLen, config.m_blocksize)
        q == [p EXCEPT !.iflush = FlushBlock(@, mblock)]
    IN IF f.n > 1
       THEN [p |-> q,
             item |-> Some([key |-> Unwrap(f.first_key), fpos |-> ToFpos(q.iflush)])]
       ELSE [p |-> p,
             item |-> Some([key |-> Unwrap(f.first_key), fpos |-> Unwrap(f.curr_fpos)])]

\* the tail of BuildMM::next: the block is flushed only when n > 1,
\* else the child's fpos goes up unchanged
FinishMM(p, f) ==
    LET mblock == Block("M", f.entries, f.blen + BreakLen, config.m_blocksize)
    IN IF f.n > 1
       THEN [p |-> [p EXCEPT !.iflush = FlushBlock(@, mblock)],
             item |-> Some([key |-> Unwrap(f.first_key), fpos |-> ToFpos(p.iflush)])]
       ELSE [p |-> p,
             item |-> Some([key |-> Unwrap(f.first_key), fpos |-> Unwrap(f.curr_fpos)])]

Finish(p, L) == IF L = 1 THEN FinishMZ(p, p.frames[L]) ELSE FinishMM(p, p.frames[L])

\* the Some(Ok((key, fpos))) arm of the loop at level L: the frame after
\* first_key.get_or_insert_with, and for BuildMM curr_fpos = Some(fpos), n += 1
Received(f, L, e) ==
    [f EXCEPT !.first_key = IF @ = None THEN Some(e.key) ELSE @,
              !.curr_fpos = IF L = 1 THEN @ ELSE Some(e.fpos),
              !.n = IF L = 1 THEN @ ELSE @ + 1]

\* (mblock.len() + ibytes.len()) > block_size
Overflows(f) == f.blen + MEntryLen > BlockSize(config.m_blocksize)

RECURSIVE Deliver(_, _, _), Pull(_, _)
\* level L gets `item` in its loop; L = Top + 1 is build_tree itself
Deliver(p, L, item) ==
    IF L > Top
    THEN [p EXCEPT !.returned = TRUE, !.result = item]
    ELSE IF item = None
    THEN IF IsSome(p.frames[L].first_key)
         \* None if first_key.is_some() => break
         THEN LET r == Finish(p, L) IN Deliver(r.p, L + 1, r.item)
         \* None => return None
         ELSE Deliver(p, L + 1, None)
    ELSE LET e == Unwrap(item)
             f == Received(p.frames[L], L, e)
         IN IF Overflows(f)
            \* self.entry = Some((key, fpos)); break
            THEN LET r == Finish([p EXCEPT !.frames[L] = f,
                                           !.slots[L] = Some(e)], L)
                 IN Deliver(r.p, L + 1, r.item)
            \* mblock.extend_from_slice(&ibytes), and around the loop
            ELSE Pull([p EXCEPT !.frames[L] =
                          [f EXCEPT !.entries = Append(@, NewM(IF L = 1 THEN "MZ" ELSE "MM",
                                                               e.key, e.fpos)),
                                    !.blen = @ + MEntryLen]], L)

\* the head of the loop at level L: self.entry.take(), or else
\* self.iter.next(); the call into BuildZZ is where a pipeline step ends
Pull(p, L) ==
    IF IsSome(p.slots[L])
    THEN Deliver([p EXCEPT !.slots[L] = None], L, p.slots[L])
    ELSE IF L = 1
    THEN p
    ELSE Pull([p EXCEPT !.frames[L - 1] = FreshFrame], L - 1)

----------------------------------------------------------------------------
(* robt.rs: Builder *)

\* Stats::from(config), with vlog_file as Builder::initial sets it
NewStats(c) ==
    [z_blocksize |-> c.z_blocksize, m_blocksize |-> c.m_blocksize,
     delta_ok |-> c.delta_ok, value_in_vlog |-> c.value_in_vlog,
     vlog_file |-> (c.value_in_vlog \/ c.delta_ok),
     n_count |-> 0, n_deleted |-> 0, seqno |-> 0, n_abytes |-> 0]

\* the pipeline state held in the variables
Pipeline ==
    [scan |-> scan, slots |-> slots, frames |-> frames, iflush |-> iflush,
     vflush |-> vflush, returned |-> FALSE, result |-> None, panicked |-> FALSE]

\* Builder::compute_root_block
ComputeRootBlock(n) ==
    IF n % MARKER_BLOCK_SIZE = 0 THEN n
    ELSE ((n \div MARKER_BLOCK_SIZE) + 1) * MARKER_BLOCK_SIZE

\* into_cbor_bytes(metas).len(): the five items; the app metadata and the
\* bitmap are empty here, the stats are a fixed-size record
MetaPayloadLen == 64

\* build_index, build_from_iter and build_tree up to the first
\* BuildZZ::next: n_abytes is read, the levels are stacked and entered
BuildStart ==
    /\ builder.phase = "init"
    /\ builder' = [builder EXCEPT !.phase = "tree",
                                  !.stats.n_abytes = ToFpos(vflush)]
    /\ frames' = [L \in Levels |-> FreshFrame]
    /\ UNCHANGED <<config, seqno_arg, source, scan, slots, iflush, vflush,
                   reader, got, iter>>
    /\ UNCHANGED fvars
    /\ UNCHANGED xvars

\* a build_tree that would take the position 0 as the root of no tree
AfterTree_EmptyIsRoot(q) ==
    [builder EXCEPT !.phase = "flush",
                    !.root = IF q.result = None THEN 0 ELSE Unwrap(q.result).fpos,
                    !.stats.n_count = q.scan.n_count,
                    !.stats.n_deleted = q.scan.n_deleted,
                    !.stats.seqno = q.scan.seqno]

\* what build_tree and build_from_iter do once build.next() has returned
AfterTree(q) ==
    IF q.result = None
    \* None => err_at!(Invalid, msg: "empty iterator")
    THEN [builder EXCEPT !.phase = "invalid"]
    ELSE [builder EXCEPT !.phase = "flush",
                         !.root = Unwrap(q.result).fpos,
                         !.stats.n_count = q.scan.n_count,
                         !.stats.n_deleted = q.scan.n_deleted,
                         !.stats.seqno = q.scan.seqno]

\* one BuildZZ::next and everything the levels above do with its result,
\* up to the next BuildZZ::next or to the return of the topmost level
BuildStep ==
    /\ builder.phase = "tree"
    /\ Len(iflush.data) < MaxBlocks
    /\ LET z == BuildZZNext(Pipeline)
           q == IF z.p.panicked THEN z.p ELSE Deliver(z.p, 1, z.item)
       IN /\ scan' = q.scan
          /\ slots' = q.slots
          /\ frames' = q.frames
          /\ iflush' = q.iflush
          /\ vflush' = q.vflush
          /\ builder' = IF q.panicked THEN [builder EXCEPT !.phase = "panic"]
                        ELSE IF q.returned THEN AfterTree(q)
                        ELSE builder
    /\ UNCHANGED <<config, seqno_arg, source, reader, got, iter>>
    /\ UNCHANGED fvars
    /\ UNCHANGED xvars

\* build_flush: meta_blocks(bitmap, seqno), the meta block flushed, both
\* flushers closed
BuildFlush ==
    /\ builder.phase = "flush"
    /\ LET len == MetaPayloadLen
           m == ComputeRootBlock(len + 16)
       IN iflush' = FlushBlock(iflush, Block("meta", <<>>, len, m))
    /\ builder' = [builder EXCEPT
                     !.phase = "built",
                     !.stats.seqno = IF IsSome(seqno_arg) THEN Unwrap(seqno_arg) ELSE @]
    /\ UNCHANGED <<config, seqno_arg, source, scan, slots, frames, vflush,
                   reader, got, iter>>
    /\ UNCHANGED fvars
    /\ UNCHANGED xvars

----------------------------------------------------------------------------
(* lib.rs read_file!, util::from_cbor_bytes: reading blocks back *)

Ok(v) == [err |-> "", val |-> v]
Err(kind) == [err |-> kind, val |-> <<>>]

\* read_file!(index, Start(fpos), n) then from_cbor_bytes::<Vec<Entry>>:
\* a short read is Fatal; the array decodes when its break marker is
\* among the n bytes read, whatever follows it
ReadBlock(fpos, n) ==
    LET data == iflush.data
        at == {i \in 1..Len(data) : data[i].fpos = fpos /\ data[i].kind # "meta"}
    IN IF fpos + n > iflush.fpos THEN Err("Fatal")
       ELSE IF at = {} THEN Err("FailCbor")
       ELSE LET b == data[CHOOSE i \in at : TRUE]
            IN IF b.used > b.len \/ b.used > n THEN Err("FailCbor")
               ELSE Ok(b.entries)

\* read_file!(vlog, Start(fpos), length) then the payload decoded
ReadVlog(fpos, length) ==
    LET data == vflush.data
        at == {i \in 1..Len(data) : data[i].fpos = fpos /\ data[i].len = length
                                    /\ data[i].kind \in {"value", "delta"}}
    IN IF fpos + length > vflush.fpos THEN Err("Fatal")
       ELSE IF at = {} THEN Err("FailCbor")
       ELSE Ok(data[CHOOSE i \in at : TRUE].payload)

\* an into_native that would read the deltas back whether asked or not
IntoNative_AlwaysVersions(ze, with_vlog, versions) ==
    LET v == ze.value
        rv == IF v.native \/ ~with_vlog THEN Ok(v.payload) ELSE ReadVlog(v.fpos, v.length)
        keep == IF with_vlog THEN ze.deltas ELSE <<>>
        rd == [i \in 1..Len(keep) |-> ReadVlog(keep[i].fpos, keep[i].length)]
        bad == {i \in 1..Len(keep) : rd[i].err # ""}
    IN IF rv.err # "" THEN Err(rv.err)
       ELSE IF bad # {} THEN Err(rd[CHOOSE i \in bad : TRUE].err)
       ELSE Ok([key |-> ze.key, value |-> rv.val,
                vlen |-> IF v.native THEN v.vlen ELSE v.length,
                seqno |-> v.seqno, deleted |-> v.deleted,
                deltas |-> [i \in 1..Len(keep) |->
                               [seqno |-> keep[i].seqno, diff |-> rd[i].val]]])

\* the db::Entry handed to the caller: Entry::into_native and From<Entry>;
\* with_vlog is reader.vlog.is_some()
IntoNative(ze, with_vlog, versions) ==
    LET v == ze.value
        rv == IF v.native \/ ~with_vlog THEN Ok(v.payload) ELSE ReadVlog(v.fpos, v.length)
        keep == IF with_vlog /\ versions THEN ze.deltas ELSE <<>>
        rd == [i \in 1..Len(keep) |-> ReadVlog(keep[i].fpos, keep[i].length)]
        bad == {i \in 1..Len(keep) : rd[i].err # ""}
    IN IF rv.err # "" THEN Err(rv.err)
       ELSE IF bad # {} THEN Err(rd[CHOOSE i \in bad : TRUE].err)
       ELSE Ok([key |-> ze.key, value |-> rv.val,
                vlen |-> IF v.native THEN v.vlen ELSE v.length,
                seqno |-> v.seqno, deleted |-> v.deleted,
                deltas |-> [i \in 1..Len(keep) |->
                               [seqno |-> keep[i].seqno, diff |-> rd[i].val]]])

----------------------------------------------------------------------------
(* reader.rs: Reader *)

\* a Bound<K>
Unbounded == [b |-> "U", key |-> 0]
Included(k) == [b |-> "I", key |-> k]
Excluded(k) == [b |-> "E", key |-> k]

\* slice::binary_search_by(|e| e.key.cmp(k)) on a slice sorted by key:
\* found with a 0-based offset, or the 0-based insertion point
BinarySearch(es, k) ==
    LET hit == {i \in 1..Len(es) : es[i].key = k}
    IN IF hit # {}
       THEN [found |-> TRUE, off |-> (CHOOSE i \in hit : TRUE) - 1]
       ELSE [found |-> FALSE, off |-> Cardinality({i \in 1..Len(es) : es[i].key < k})]

\* binary_search_by(|e| fcmp(e.key, sk)): Unbounded compares Greater
FSearch(es, sk) ==
    IF sk.b = "U" THEN [found |-> FALSE, off |-> 0] ELSE BinarySearch(es, sk.key)

\* binary_search_by(|e| rcmp(e.key, ek)): Unbounded compares Less
RSearch(es, ek) ==
    IF ek.b = "U" THEN [found |-> FALSE, off |-> Len(es)] ELSE BinarySearch(es, ek.key)

Reverse(s) == [i \in 1..Len(s) |-> s[Len(s) + 1 - i]]

\* Reader::from_root: the root block is read with stats.m_blocksize
FromRoot(root, stats) ==
    LET r == ReadBlock(root, stats.m_blocksize)
    IN IF r.err # "" THEN [status |-> r.err, root |-> <<>>, m_blocksize |-> 0,
                           z_blocksize |-> 0, vlog |-> FALSE]
       ELSE [status |-> "open", root |-> r.val,
             m_blocksize |-> stats.m_blocksize, z_blocksize |-> stats.z_blocksize,
             vlog |-> (stats.value_in_vlog \/ stats.delta_ok)]

RECURSIVE GetLoop(_, _, _)
\* the loop of Reader::get over the block es
GetLoop(es, ukey, versions) ==
    LET bs == BinarySearch(es, ukey)
    IN IF ~bs.found /\ bs.off = 0 THEN Err("KeyNotFound")
       ELSE LET off == IF bs.found THEN bs.off ELSE bs.off - 1
                e == es[off + 1]
            IN IF e.t = "MM"
               THEN LET r == ReadBlock(e.fpos, reader.m_blocksize)
                    IN IF r.err # "" THEN Err(r.err) ELSE GetLoop(r.val, ukey, versions)
               ELSE IF e.t = "MZ"
               THEN LET r == ReadBlock(e.fpos, reader.z_blocksize)
                    IN IF r.err # "" THEN Err(r.err) ELSE GetLoop(r.val, ukey, versions)
               ELSE IF e.key = ukey
               THEN IntoNative(e, reader.vlog, versions)
               ELSE Err("KeyNotFound")

RECURSIVE fwd_stack(_, _)
\* Reader::fwd_stack: here z_blocksize is set from self.m_blocksize
fwd_stack(sk, block) ==
    IF block = <<>> THEN Ok(<<>>)
    ELSE LET bs == FSearch(block, sk)
         IN IF block[1].t = "ZZ"
            THEN Ok(<<SubSeq(block, bs.off + 1, Len(block))>>)
            ELSE LET off == IF bs.found THEN bs.off ELSE Max(bs.off - 1, 0)
                     entry == block[off + 1]
                     rem == SubSeq(block, off + 2, Len(block))
                     m_blocksize == reader.m_blocksize
                     z_blocksize == reader.m_blocksize
                     r == ReadBlock(entry.fpos, IF entry.t = "MM" THEN m_blocksize
                                                ELSE z_blocksize)
                 IN IF r.err # "" THEN r
                    ELSE LET stack == fwd_stack(sk, r.val)
                         IN IF stack.err # "" THEN stack
                            ELSE Ok(<<rem>> \o stack.val)

RECURSIVE rwd_stack(_, _)
\* Reader::rwd_stack
rwd_stack(ek, block) ==
    IF block = <<>> THEN Ok(<<>>)
    ELSE LET bs == RSearch(block, ek)
         IN IF block[1].t = "ZZ"
            THEN LET off == Min(bs.off + 1, Len(block))
                 IN Ok(<<Reverse(SubSeq(block, 1, off))>>)
            ELSE LET off == IF bs.found THEN bs.off ELSE Max(bs.off - 1, 0)
                     entry == block[off + 1]
                     rem == Reverse(SubSeq(block, 1, off))
                     r == ReadBlock(entry.fpos, IF entry.t = "MM" THEN reader.m_blocksize
                                                ELSE reader.z_blocksize)
                 IN IF r.err # "" THEN r
                    ELSE LET stack == rwd_stack(ek, r.val)
                         IN IF stack.err # "" THEN stack
                            ELSE Ok(<<rem>> \o stack.val)

----------------------------------------------------------------------------
(* reader.rs: Iter.  An iterator value it = [stack, entry, bound, reverse, *)
(* versions]; the top of the stack is its last element.                    *)

\* what Iter::next returns
YieldSome(e) == [tag |-> "some", entry |-> e]
YieldNone == [tag |-> "none", entry |-> <<>>]
YieldErr(kind) == [tag |-> kind, entry |-> <<>>]

\* Iter::till: the entry, or the stack drained and None
Till(it, e) ==
    LET inside == IF it.bound.b = "U" THEN TRUE
                  ELSE IF it.reverse
                  THEN IF it.bound.b = "I" THEN e.key >= it.bound.key
                       ELSE e.key > it.bound.key
                  ELSE IF it.bound.b = "I" THEN e.key <= it.bound.key
                       ELSE e.key < it.bound.key
    IN IF inside THEN [it |-> it, res |-> YieldSome(e)]
       ELSE [it |-> [it EXCEPT !.stack = <<>>], res |-> YieldNone]

\* Iter::fetchzz followed by entry.into()
FetchZZ(it, ze) == IntoNative(ze, reader.vlog, it.versions)

RECURSIVE IterNext(_)
\* Iter::next: every child block is read with m_blocksize
IterNext(it) ==
    IF IsSome(it.entry)
    THEN [it |-> [it EXCEPT !.entry = None], res |-> YieldSome(Unwrap(it.entry))]
    ELSE IF it.stack = <<>>
    THEN [it |-> it, res |-> YieldNone]
    ELSE LET n == Len(it.stack)
             block == it.stack[n]
             below == SubSeq(it.stack, 1, n - 1)
         IN IF block = <<>>
            THEN IterNext([it EXCEPT !.stack = below])
            ELSE LET e == Head(block)
                     pushed == [it EXCEPT !.stack = Append(below, Tail(block))]
                 IN IF e.t = "ZZ"
                    THEN LET r == FetchZZ(it, e)
                         IN IF r.err # "" THEN [it |-> pushed, res |-> YieldErr(r.err)]
                            ELSE Till(pushed, r.val)
                    ELSE LET r == ReadBlock(e.fpos, reader.m_blocksize)
                         IN IF r.err # "" THEN [it |-> pushed, res |-> YieldErr(r.err)]
                            ELSE IterNext([pushed EXCEPT !.stack =
                                     Append(@, IF it.reverse THEN Reverse(r.val) ELSE r.val)])

\* the arms of the loop in Reader::iter that drop an entry before the range
Before(lo, hi, reverse, e) ==
    IF reverse
    THEN (hi.b = "I" /\ e.key > hi.key) \/ (hi.b = "E" /\ e.key >= hi.key)
    ELSE (lo.b = "I" /\ e.key < lo.key) \/ (lo.b = "E" /\ e.key <= lo.key)

RECURSIVE SkipLoop(_, _, _)
\* the `while let Some(item) = iter.next()` loop of Reader::iter
SkipLoop(it, lo, hi) ==
    LET r == IterNext(it)
    IN IF r.res.tag = "none" THEN Ok(r.it)
       ELSE IF r.res.tag # "some" THEN Err(r.res.tag)
       ELSE IF Before(lo, hi, it.reverse, r.res.entry) THEN SkipLoop(r.it, lo, hi)
       ELSE Ok([r.it EXCEPT !.entry = Some(r.res.entry)])

\* Reader::iter(range, reverse, versions): Ok(Iter) or Err
ReaderIter(lo, hi, reverse, versions) ==
    LET stack == IF reverse THEN rwd_stack(hi, reader.root)
                 ELSE fwd_stack(lo, reader.root)
    IN IF stack.err # "" THEN stack
       ELSE SkipLoop([stack |-> stack.val, entry |-> None,
                      bound |-> IF reverse THEN lo ELSE hi,
                      reverse |-> reverse, versions |-> versions], lo, hi)

----------------------------------------------------------------------------
(* robt.rs: Index *)

NoReader == [status |-> "none", root |-> <<>>, m_blocksize |-> 0,
             z_blocksize |-> 0, vlog |-> FALSE]
NoGet == [status |-> "none", key |-> 0, versions |-> FALSE, entry |-> <<>>]
NoIter == [status |-> "none", lo |-> Unbounded, hi |-> Unbounded,
           stack |-> <<>>, entry |-> None, bound |-> Unbounded,
           reverse |-> FALSE, versions |-> FALSE, out |-> <<>>]

\* Index::open / open_file on the files of a finished build: the trailer
\* and the meta items are read back, then Reader::from_root
Open ==
    /\ builder.phase = "built"
    /\ reader.status = "none"
    /\ reader' = FromRoot(builder.root, builder.stats)
    /\ UNCHANGED <<config, seqno_arg, source, scan, slots, frames, iflush,
                   vflush, builder, got, iter>>
    /\ UNCHANGED fvars
    /\ UNCHANGED xvars

\* Index::get (versions = FALSE) and Index::get_versions (versions = TRUE)
Get(key, versions) ==
    /\ reader.status = "open"
    /\ got.status = "none" /\ iter.status = "none"
    /\ LET r == GetLoop(reader.root, key, versions)
       IN got' = [status |-> IF r.err = "" THEN "ok" ELSE r.err,
                  key |-> key, versions |-> versions, entry |-> r.val]
    /\ UNCHANGED <<config, seqno_arg, source, scan, slots, frames, iflush,
                   vflush, builder, reader, iter>>
    /\ UNCHANGED fvars
    /\ UNCHANGED xvars

\* Index::iter, reverse, iter_versions, reverse_versions over (lo, hi)
NewIter(lo, hi, reverse, versions) ==
    /\ reader.status = "open"
    /\ got.status = "none" /\ iter.status = "none"
    /\ LET r == ReaderIter(lo, hi, reverse, versions)
       IN iter' = IF r.err # ""
                  THEN [NoIter EXCEPT !.status = r.err, !.lo = lo, !.hi = hi,
                                      !.reverse = reverse, !.versions = versions]
                  ELSE [status |-> "running", lo |-> lo, hi |-> hi,
                        stack |-> r.val.stack, entry |-> r.val.entry,
                        bound |-> r.val.bound, reverse |-> reverse,
                        versions |-> versions, out |-> <<>>]
    /\ UNCHANGED <<config, seqno_arg, source, scan, slots, frames, iflush,
                   vflush, builder, reader, got>>
    /\ UNCHANGED fvars
    /\ UNCHANGED xvars

\* one Iter::next by the caller, who collects what it yields and stops at
\* None or at the first error
Next_(it) == IterNext([stack |-> it.stack, entry |-> it.entry, bound |-> it.bound,
                       reverse |-> it.reverse, versions |-> it.versions])

IterStep ==
    /\ iter.status = "running"
    /\ LET r == Next_(iter)
       IN iter' = [iter EXCEPT
                     !.stack = r.it.stack,
                     !.entry = r.it.entry,
                     !.out = IF r.res.tag = "some" THEN Append(@, r.res.entry) ELSE @,
                     !.status = IF r.res.tag = "some" THEN "running"
                                ELSE IF r.res.tag = "none" THEN "done"
                                ELSE r.res.tag]
    /\ UNCHANGED <<config, seqno_arg, source, scan, slots, frames, iflush,
                   vflush, builder, reader, got>>
    /\ UNCHANGED fvars
    /\ UNCHANGED xvars

----------------------------------------------------------------------------
(* The inputs: configurations and sources. *)

Keys == 1..MaxKey

\* a db::Entry of the source: key, value, the value's encoded length,
\* seqno, deleted, and the older versions as deltas, newest first
SourceEntry(k, v) ==
    [key |-> k, value |-> 7 * k, vlen |-> v.vlen, seqno |-> v.seqno,
     deleted |-> v.deleted,
     deltas |-> [i \in 1..v.nd |-> [seqno |-> v.seqno - i, diff |-> 10 * k + i]]]

RECURSIVE SortedSeq(_, _)
\* the strictly ascending source over the keys S with shapes f
SortedSeq(S, f) ==
    IF S = {} THEN <<>>
    ELSE LET k == CHOOSE x \in S : \A y \in S : x <= y
         IN <<SourceEntry(k, f[k])>> \o SortedSeq(S \ {k}, f)

Sources(shapes) ==
    {SortedSeq(S, f) : <<S, f>> \in
        UNION {{<<S, f>> : f \in [S -> shapes]} : S \in SUBSET Keys}}

\* entries that differ in encoded length: the smaller of them fits twice
\* in the middle block size, the larger once
PackShapes ==
    {[vlen |-> 1, seqno |-> 2, deleted |-> FALSE, nd |-> 0],
     [vlen |-> 3, seqno |-> 2, deleted |-> FALSE, nd |-> 0]}

\* entries that differ in seqno, deletion and older versions
VersionShapes ==
    {[vlen |-> 1, seqno |-> 1, deleted |-> FALSE, nd |-> 0],
     [vlen |-> 1, seqno |-> 3, deleted |-> FALSE, nd |-> 1],
     [vlen |-> 1, seqno |-> 2, deleted |-> TRUE, nd |-> 1]}

\* block sizes: one too small for the array marker and the break, one per
\* number of small entries that fit
ZSizes == {1, 4, 6, 8}
MSizes == {1, 4, 6}

\* Config::new with set_blocksize: delta_ok = true, value_in_vlog = false
PackConfigs ==
    {[z_blocksize |-> z, m_blocksize |-> m, delta_ok |-> TRUE,
      value_in_vlog |-> FALSE] : z \in ZSizes, m \in MSizes}

\* set_delta and set_value_log over one block size
VersionConfigs ==
    {[z_blocksize |-> 6, m_blocksize |-> 6, delta_ok |-> d,
      value_in_vlog |-> v] : d \in BOOLEAN, v \in BOOLEAN}

SeqnoArgs == {None, Some(0), Some(5)}

----------------------------------------------------------------------------
(* Files, and the values of a Flusher, its thread and the Index values     *)
(* before any of them exists.                                              *)

\* the index file and the value-log file of one index name
Files == {"indx", "vlog"}

\* no file at either path; inodes are numbered from 1 as they are created
NoFiles == [path |-> [f \in Files |-> 0], content |-> <<>>, shared |-> <<>>,
            excl |-> <<>>]

\* Result<u64> of the flusher: Ok(v), Err(kind), and "not returned yet"
FOk(v) == [err |-> "", val |-> v]
FErr(kind) == [err |-> kind, val |-> 0]
NoResult == [err |-> "pending", val |-> 0]

\* a Vec<u8> handed to flush: which one it is and its length
NoBlock == [id |-> 0, len |-> 0]

NoFlusher == [state |-> "unbuilt", file |-> "indx", fpos |-> 0, pc |-> "idle",
              last |-> NoResult, ret |-> NoResult]
NoChan == [queue |-> <<>>, tx |-> FALSE, rx |-> FALSE, reply |-> "none",
           reply_fpos |-> 0]
NoWorker == [pc |-> "none", ino |-> 0, fpos |-> 0, cur |-> NoBlock,
             synced |-> FALSE, result |-> NoResult]
NoPurger == [state |-> "gone", ino |-> 0, locked |-> 0, last |-> "none"]
NoHist == [by |-> "none", existed |-> FALSE, before |-> <<>>, init |-> <<>>,
           posted |-> <<>>, flush_err |-> FALSE, wfail |-> FALSE,
           at_failure |-> <<>>, vexisted |-> FALSE, vbefore |-> <<>>,
           vfpos |-> 0]
NoHandles == <<>>

\* before a caller has used a BuildScan: the seqno it was made with, the
\* last item next() returned, whether the caller has pushed it back, the
\* entries returned a first time, whether any was returned again, and
\* whether unwrap was called
NoCalls == [seqno |-> 0, last |-> None, pending |-> FALSE, out |-> <<>>,
            replayed |-> FALSE, ended |-> FALSE, done |-> FALSE]
\* before a meta block is made: the bytes already in the index file, the
\* items and the length of their encoding, the file, what open_file decoded
NoMetaBlk == [state |-> "none", prefix |-> 0, items |-> <<>>, len |-> 0,
              file |-> <<>>, read |-> NoResult]
\* validate and compact not called
NoValidated == NoResult
NoCompacted == [state |-> "none", cutoff |-> [t |-> "none", bound |-> <<>>],
                from |-> NoResult, scanned |-> <<>>]
\* no file name made: the file whose String::try_from is called, whether
\* the file name was made by one of the two From<String> or given raw, the
\* logical name or the raw path, the file name, what try_from returned
\* no BuildZZ step is in flight and neither thread has written a block
NoLeaf == [pc |-> "idle", vdone |-> 0, idone |-> 0, held |-> <<>>]

NoNamed == [state |-> "none", file |-> "indx", made |-> "raw", name |-> <<>>,
            fname |-> <<>>, back |-> [err |-> "pending", val |-> <<>>]]

\* Builder::initial(config, meta) has run; nothing is built or opened yet
Init ==
    /\ fs = NoFiles
    /\ flusher = NoFlusher
    /\ chan = NoChan
    /\ worker = NoWorker
    /\ purger = NoPurger
    /\ hist = NoHist
    /\ handles = NoHandles
    /\ \/ /\ config \in PackConfigs
          /\ source \in Sources(PackShapes)
          /\ seqno_arg = None
       \/ /\ config \in VersionConfigs
          /\ source \in Sources(VersionShapes)
          /\ seqno_arg \in SeqnoArgs
    /\ scan = NewScan
    /\ slots = [L \in Levels |-> None]
    /\ frames = [L \in Levels |-> FreshFrame]
    /\ iflush = NewFlusher
    /\ vflush = IF config.value_in_vlog \/ config.delta_ok THEN NewFlusher
                ELSE EmptyFlusher
    /\ builder = [phase |-> "init", root |-> 0, stats |-> NewStats(config)]
    /\ reader = NoReader
    /\ got = NoGet
    /\ iter = NoIter
    /\ calls = NoCalls
    /\ metablk = NoMetaBlk
    /\ validated = NoValidated
    /\ compacted = NoCompacted
    /\ named = NoNamed
    /\ leaf = NoLeaf

Bounds == {Unbounded} \cup {Included(k) : k \in Keys} \cup {Excluded(k) : k \in Keys}

Next ==
    \/ BuildStart
    \/ BuildStep
    \/ BuildFlush
    \/ Open
    \/ \E k \in Keys, versions \in BOOLEAN : Get(k, versions)
    \/ \E lo \in Bounds, hi \in Bounds, reverse \in BOOLEAN, versions \in BOOLEAN :
          NewIter(lo, hi, reverse, versions)
    \/ IterStep

Spec == Init /\ [][Next]_vars

----------------------------------------------------------------------------
(* The file system and fs2's advisory locks.  A lock belongs to an open    *)
(* file, named here by who opened it; closing the file releases it.        *)

\* the number of flush calls made on one Flusher
MaxPosts == 3
\* the length of a file found at a path before the Flusher is made
MaxOld == 2
\* flush_queue_size, the bound of the sync_channel
FlushQueueSize == 2

\* the lengths of the blocks handed to flush
BlockLens == {1, 2}

RECURSIVE BytesOf(_)
\* fs::metadata(path).len(): the bytes of the blocks in the file
BytesOf(content) ==
    IF content = <<>> THEN 0 ELSE Head(content).len + BytesOf(Tail(content))

\* create_file_a: remove_file(path).ok(), then append(true).create_new(true):
\* a new, empty inode at the path; an inode still open elsewhere lives on
CreateFileA(f, file) ==
    [path |-> [f.path EXCEPT ![file] = Len(f.content) + 1],
     content |-> Append(f.content, <<>>),
     shared |-> Append(f.shared, {}),
     excl |-> Append(f.excl, {})]

\* lock_shared blocks while another open file holds the exclusive lock
CanLockShared(f, ino) == f.excl[ino] = {}
LockShared(f, ino, who) == [f EXCEPT !.shared[ino] = @ \cup {who}]

\* a try_lock_exclusive that would mind no shared lock
CanLockExclusive_OverShared(f, ino) == f.excl[ino] = {}

\* try_lock_exclusive on a file just opened: refused while any other open
\* file holds a lock, shared or exclusive
CanLockExclusive(f, ino) == f.shared[ino] = {} /\ f.excl[ino] = {}
LockExclusive(f, ino, who) == [f EXCEPT !.excl[ino] = @ \cup {who}]

\* unlock, or the drop of the open file
Unlock(f, ino, who) ==
    [f EXCEPT !.shared[ino] = @ \ {who}, !.excl[ino] = @ \ {who}]

\* fs::remove_file(path)
RemoveFile(f, file) == [f EXCEPT !.path[file] = 0]

\* a write that would put the bytes at the front of the file
WriteFile_AtFront(f, ino, b, n) ==
    IF n > 0 THEN [f EXCEPT !.content[ino] = <<[b EXCEPT !.len = n]>> \o @]
    ELSE f

\* fd.write(data) appending n of its bytes
WriteFile(f, ino, b, n) ==
    IF n > 0 THEN [f EXCEPT !.content[ino] = Append(@, [b EXCEPT !.len = n])]
    ELSE f

----------------------------------------------------------------------------
(* flush.rs: Flusher::new, flush, close on the owner's thread, and         *)
(* thread_flush on its own thread.  mkit's Tx::request sends (data,        *)
(* reply sender) on the channel and then blocks in recv() on the reply.    *)

\* a Flusher::new that would start every file at fpos 0
OpenForFlush_FposZero(f, file, create) ==
    IF create
    THEN LET f2 == CreateFileA(f, file)
         IN [err |-> "", fs |-> f2, ino |-> f2.path[file], fpos |-> 0]
    ELSE IF f.path[file] = 0
    THEN [err |-> "IOError", fs |-> f, ino |-> 0, fpos |-> 0]
    ELSE [err |-> "", fs |-> f, ino |-> f.path[file], fpos |-> 0]

\* Flusher::new(file, create, queue_size) up to the spawn of the thread:
\* the files after it, the inode opened, the starting fpos, or the error
OpenForFlush(f, file, create) ==
    IF create
    THEN LET f2 == CreateFileA(f, file)
         IN [err |-> "", fs |-> f2, ino |-> f2.path[file], fpos |-> 0]
    ELSE IF f.path[file] = 0
    \* fs::metadata(file_path) fails
    THEN [err |-> "IOError", fs |-> f, ino |-> 0, fpos |-> 0]
    ELSE [err |-> "", fs |-> f, ino |-> f.path[file],
          fpos |-> BytesOf(f.content[f.path[file]])]

\* what is in the file at the path, if any
FoundAt(f, file) == IF f.path[file] = 0 THEN <<>> ELSE f.content[f.path[file]]

\* Flusher::new on the index file, as `by` calls it, with the files as `f`
\* finds them
FlusherNewOn(f, create, by) ==
    LET o == OpenForFlush(f, "indx", create)
    IN /\ flusher.state = "unbuilt"
       /\ IF o.err # ""
          THEN /\ flusher' = [flusher EXCEPT !.state = "failed", !.ret = FErr(o.err)]
               /\ hist' = [hist EXCEPT !.by = by]
               /\ fs' = f
               /\ UNCHANGED <<chan, worker>>
          ELSE /\ fs' = o.fs
               /\ flusher' = [flusher EXCEPT !.state = "File", !.fpos = o.fpos]
               /\ chan' = [NoChan EXCEPT !.tx = TRUE, !.rx = TRUE]
               /\ worker' = [NoWorker EXCEPT !.pc = "spawned", !.ino = o.ino,
                                             !.fpos = o.fpos]
               /\ hist' = [hist EXCEPT !.by = by,
                                       !.existed = fs.path["indx"] # 0,
                                       !.before = FoundAt(fs, "indx"),
                                       !.init = o.fs.content[o.ino],
                                       !.vexisted = fs.path["vlog"] # 0,
                                       !.vbefore = FoundAt(fs, "vlog"),
                                       !.vfpos = IF by = "incremental"
                                                 THEN OpenForFlush(fs, "vlog", TRUE).fpos
                                                 ELSE 0]
       /\ UNCHANGED <<purger, handles>>
       /\ UNCHANGED bvars
    /\ UNCHANGED xvars

\* Flusher::new(path, create, queue_size) called directly
FlusherNew ==
    \E create \in BOOLEAN : FlusherNewOn(fs, create, "new")

\* Builder::incremental(config, Some(vlog), meta): the value-log flusher is
\* made with Flusher::new(&vlog, true, ..) after the index flusher; its
\* to_fpos() is what build_from_iter stores in stats.n_abytes
BuilderIncremental ==
    FlusherNewOn(OpenForFlush(fs, "vlog", TRUE).fs, TRUE, "incremental")

\* Flusher::flush(data), the send half of tx.request(data)
FlushCall ==
    /\ flusher.state = "File"
    /\ flusher.pc = "idle"
    /\ Len(hist.posted) < MaxPosts
    /\ \E len \in BlockLens :
          LET b == [id |-> Len(hist.posted) + 1, len |-> len]
          IN IF ~chan.rx
             \* the receiver is gone: send fails, flush returns IPCFail
             THEN /\ flusher' = [flusher EXCEPT !.last = FErr("IPCFail")]
                  /\ hist' = [hist EXCEPT !.posted = Append(@, b),
                                          !.flush_err = TRUE]
                  /\ UNCHANGED chan
             ELSE /\ Len(chan.queue) < FlushQueueSize
                  /\ chan' = [chan EXCEPT !.queue = Append(@, b), !.reply = "none"]
                  /\ flusher' = [flusher EXCEPT !.pc = "waiting"]
                  /\ hist' = [hist EXCEPT !.posted = Append(@, b)]
    /\ UNCHANGED <<fs, worker, purger, handles>>
    /\ UNCHANGED bvars
    /\ UNCHANGED xvars

\* a flush that would return as soon as its block is in the queue
FlushReturn_OnceEnqueued ==
    /\ flusher.pc = "waiting"
    /\ flusher' = [flusher EXCEPT !.pc = "idle", !.last = FOk(0),
                                  !.fpos = BytesOf(hist.init) + BytesOf(hist.posted)]
    /\ UNCHANGED <<fs, chan, worker, purger, hist, handles>>
    /\ UNCHANGED bvars
    /\ UNCHANGED xvars

\* Flusher::flush(data), the recv half of tx.request(data) and
\* `*fpos = ..?`: the reply is the worker's fpos; a dropped reply sender is
\* IPCFail and leaves fpos as it was
FlushReturn ==
    /\ flusher.pc = "waiting"
    /\ chan.reply # "none"
    /\ IF chan.reply = "sent"
       THEN /\ flusher' = [flusher EXCEPT !.pc = "idle", !.fpos = chan.reply_fpos,
                                          !.last = FOk(0)]
            /\ UNCHANGED hist
       ELSE /\ flusher' = [flusher EXCEPT !.pc = "idle", !.last = FErr("IPCFail")]
            /\ hist' = [hist EXCEPT !.flush_err = TRUE]
    /\ chan' = [chan EXCEPT !.reply = "none"]
    /\ UNCHANGED <<fs, worker, purger, handles>>
    /\ UNCHANGED bvars
    /\ UNCHANGED xvars

\* Flusher::close, mem::drop(tx.take()): the channel's last sender goes
CloseCall ==
    /\ flusher.state = "File"
    /\ flusher.pc = "idle"
    /\ chan' = [chan EXCEPT !.tx = FALSE]
    /\ flusher' = [flusher EXCEPT !.pc = "joining"]
    /\ UNCHANGED <<fs, worker, purger, hist, handles>>
    /\ UNCHANGED bvars
    /\ UNCHANGED xvars

\* a close that would not wait for the thread
CloseReturn_NoJoin ==
    /\ flusher.pc = "joining"
    /\ flusher' = [flusher EXCEPT !.state = "closed", !.pc = "idle",
                                  !.ret = FOk(flusher.fpos)]
    /\ UNCHANGED <<fs, chan, worker, purger, hist, handles>>
    /\ UNCHANGED bvars
    /\ UNCHANGED xvars

\* Flusher::close, th.take().unwrap().join()?: what thread_flush returned
CloseReturn ==
    /\ flusher.pc = "joining"
    /\ worker.pc = "done"
    /\ flusher' = [flusher EXCEPT !.state = "closed", !.pc = "idle",
                                  !.ret = worker.result]
    /\ UNCHANGED <<fs, chan, worker, purger, hist, handles>>
    /\ UNCHANGED bvars
    /\ UNCHANGED xvars

\* thread_flush: fd.lock_shared()
WorkerLock ==
    /\ worker.pc = "spawned"
    /\ CanLockShared(fs, worker.ino)
    /\ fs' = LockShared(fs, worker.ino, "worker")
    /\ worker' = [worker EXCEPT !.pc = "recv"]
    /\ UNCHANGED <<flusher, chan, purger, hist, handles>>
    /\ UNCHANGED bvars
    /\ UNCHANGED xvars

\* thread_flush: `for (data, res_tx) in rx` takes the next block, or ends
\* once the queue is empty and every sender is dropped
WorkerRecv ==
    /\ worker.pc = "recv"
    /\ IF chan.queue # <<>>
       THEN /\ worker' = [worker EXCEPT !.pc = "write", !.cur = Head(chan.queue)]
            /\ chan' = [chan EXCEPT !.queue = Tail(@)]
       ELSE /\ ~chan.tx
            /\ worker' = [worker EXCEPT !.pc = "sync"]
            /\ UNCHANGED chan
    /\ UNCHANGED <<fs, flusher, purger, hist, handles>>
    /\ UNCHANGED bvars
    /\ UNCHANGED xvars

\* a thread_flush that would note the failed write and go on
WorkerFails_GoesOn(f, kind) ==
    /\ fs' = f
    /\ worker' = [worker EXCEPT !.pc = "recv", !.fpos = @ + worker.cur.len]
    /\ chan' = [chan EXCEPT !.reply = "sent",
                            !.reply_fpos = worker.fpos + worker.cur.len]
    /\ hist' = [hist EXCEPT !.wfail = TRUE, !.at_failure = f.content[worker.ino]]

\* thread_flush returns Err(kind): fd and rx are dropped with it, and so is
\* the reply sender of the block in hand
WorkerFails(f, kind) ==
    /\ fs' = Unlock(f, worker.ino, "worker")
    /\ worker' = [worker EXCEPT !.pc = "done", !.result = FErr(kind)]
    /\ chan' = [chan EXCEPT !.rx = FALSE, !.queue = <<>>, !.reply = "dropped"]
    /\ hist' = [hist EXCEPT !.wfail = TRUE, !.at_failure = f.content[worker.ino]]

\* thread_flush: write_file!(fd, &data, ..)?, fpos += data.len(),
\* res_tx.send(fpos); n is what fd.write returned, -1 for an error
WorkerWrite ==
    /\ worker.pc = "write"
    /\ \E n \in -1..worker.cur.len :
          IF n = -1
          THEN WorkerFails(fs, "IOError")
          ELSE IF n # worker.cur.len
          \* write_file!: "partial-wr"
          THEN WorkerFails(WriteFile(fs, worker.ino, worker.cur, n), "Fatal")
          ELSE /\ fs' = WriteFile(fs, worker.ino, worker.cur, n)
               /\ worker' = [worker EXCEPT !.pc = "recv",
                                           !.fpos = @ + worker.cur.len]
               /\ chan' = [chan EXCEPT !.reply = "sent",
                                       !.reply_fpos = worker.fpos + worker.cur.len]
               /\ UNCHANGED hist
    /\ UNCHANGED <<flusher, purger, handles>>
    /\ UNCHANGED bvars
    /\ UNCHANGED xvars

\* thread_flush: fd.sync_all()
WorkerSync ==
    /\ worker.pc = "sync"
    /\ worker' = [worker EXCEPT !.pc = "unlock", !.synced = TRUE]
    /\ UNCHANGED <<fs, flusher, chan, purger, hist, handles>>
    /\ UNCHANGED bvars
    /\ UNCHANGED xvars

\* thread_flush: fd.unlock() and Ok(fpos)
WorkerUnlock ==
    /\ worker.pc = "unlock"
    /\ fs' = Unlock(fs, worker.ino, "worker")
    /\ worker' = [worker EXCEPT !.pc = "done", !.result = FOk(worker.fpos)]
    /\ chan' = [chan EXCEPT !.rx = FALSE]
    /\ UNCHANGED <<flusher, purger, hist, handles>>
    /\ UNCHANGED bvars
    /\ UNCHANGED xvars

\* purge_file(index file) called by Index::purge of an Index that was
\* opened on the file found at the path: open_file_r, try_lock_exclusive.
\* On Retry or IOError purge returns and the Index, with its reader's
\* locks, is dropped
PurgeTry ==
    /\ purger.state = "open"
    /\ LET ino == fs.path["indx"]
           dropped == Unlock(Unlock(fs, 1, "index"), 2, "index")
       IN IF ino = 0
          THEN /\ purger' = [purger EXCEPT !.state = "gone", !.last = "IOError"]
               /\ fs' = dropped
          ELSE IF CanLockExclusive(fs, ino)
          THEN /\ purger' = [purger EXCEPT !.state = "locked", !.locked = ino]
               /\ fs' = LockExclusive(fs, ino, "purge")
          ELSE /\ purger' = [purger EXCEPT !.state = "gone", !.last = "Retry"]
               /\ fs' = dropped
    /\ UNCHANGED <<flusher, chan, worker, hist, handles>>
    /\ UNCHANGED bvars
    /\ UNCHANGED xvars

\* purge_file, the Ok arm: remove_file, unlock; then Index::purge returns
\* (the value-log file is left to the second purge_file, not followed here)
PurgeRemove ==
    /\ purger.state = "locked"
    /\ fs' = Unlock(Unlock(Unlock(RemoveFile(fs, "indx"), purger.locked, "purge"),
                           1, "index"), 2, "index")
    /\ purger' = [purger EXCEPT !.state = "gone", !.last = "Ok"]
    /\ UNCHANGED <<flusher, chan, worker, hist, handles>>
    /\ UNCHANGED bvars
    /\ UNCHANGED xvars

\* an idle builder over configuration c
BuilderIdleWith(c) ==
    /\ config = c
    /\ source = <<>>
    /\ seqno_arg = None
    /\ scan = NewScan
    /\ slots = [L \in Levels |-> None]
    /\ frames = [L \in Levels |-> FreshFrame]
    /\ iflush = NewFlusher
    /\ vflush = NewFlusher
    /\ builder = [phase |-> "init", root |-> 0, stats |-> NewStats(config)]
    /\ reader = NoReader
    /\ got = NoGet
    /\ iter = NoIter
    /\ calls = NoCalls
    /\ metablk = NoMetaBlk
    /\ validated = NoValidated
    /\ compacted = NoCompacted
    /\ named = NoNamed
    /\ leaf = NoLeaf

BuilderIdle ==
    BuilderIdleWith([z_blocksize |-> 6, m_blocksize |-> 6, delta_ok |-> TRUE,
                     value_in_vlog |-> TRUE])

\* what a file found at a path may hold
OldContents == {<<>>} \cup {<<[id |-> 0, len |-> n]>> : n \in 1..MaxOld}

\* both files of an earlier index at their paths, as inodes 1 and 2
OldFiles(c) ==
    [path |-> [f \in Files |-> IF f = "indx" THEN 1 ELSE 2],
     content |-> <<c, c>>, shared |-> <<{}, {}>>, excl |-> <<{}, {}>>]

\* nothing at the paths, or the files of an earlier index, which an Index
\* may hold open (its reader's shared locks on both)
FlusherInit ==
    /\ BuilderIdle
    /\ \/ fs = NoFiles /\ purger = NoPurger
       \/ \E c \in OldContents : fs = OldFiles(c) /\ purger = NoPurger
       \/ \E c \in OldContents \ {<<>>} :
             /\ fs = [OldFiles(c) EXCEPT !.shared = <<{"index"}, {"index"}>>]
             /\ purger = [NoPurger EXCEPT !.state = "open"]
    /\ flusher = NoFlusher
    /\ chan = NoChan
    /\ worker = NoWorker
    /\ hist = NoHist
    /\ handles = NoHandles

FlusherNext ==
    \/ FlusherNew
    \/ BuilderIncremental
    \/ FlushCall
    \/ FlushReturn
    \/ CloseCall
    \/ CloseReturn
    \/ WorkerLock
    \/ WorkerRecv
    \/ WorkerWrite
    \/ WorkerSync
    \/ WorkerUnlock
    \/ PurgeTry
    \/ PurgeRemove

FlusherSpec == FlusherInit /\ [][FlusherNext]_vars

----------------------------------------------------------------------------
(* robt.rs: Index values over the files of a finished build: open,         *)
(* try_clone, drop and purge.  Each Index owns a Reader whose two open     *)
(* files hold shared locks from Reader::from_root to Reader::drop.         *)

\* the number of Index values that may exist at once
MaxHandles == 3

Handles == 1..MaxHandles

\* Index.stats and the root position in Index.metas[3], before any is read
NoMeta == [stats |-> NewStats([z_blocksize |-> 0, m_blocksize |-> 0,
                               delta_ok |-> FALSE, value_in_vlog |-> FALSE]),
           root |-> 0]

\* the fields of a Reader other than its files, before from_root
NoRd == [root |-> 0, m_blocksize |-> 0, z_blocksize |-> 0]

\* no Index in this place.  An Index is: how it was made (via, of), its
\* Reader's two open files (ino, vino), the offset of the index file's
\* descriptor (off), stats and metas (meta), the Reader's root block and
\* block sizes (rd), the read_file! in progress (pc, want) and what the
\* last one returned (data), and what its purge returned (last, others)
NoIndex == [state |-> "none", via |-> "", of |-> 0, ino |-> 0, vino |-> 0,
            off |-> 0, meta |-> NoMeta, rd |-> NoRd,
            pc |-> "idle", want |-> 0, data |-> 0,
            last |-> "", others |-> FALSE]

\* stats.value_in_vlog || stats.delta_ok: the index has a value-log file
HasVlog == config.value_in_vlog \/ config.delta_ok

\* the blocks of a built index file: a leaf, then the root
BuiltBlocks == <<[id |-> 1, len |-> 1], [id |-> 2, len |-> 1]>>

\* the files of a finished build: the index file as inode 1 and, when the
\* index has one, the value-log file as inode 2; the flushers are closed
BuiltFiles ==
    [path |-> [f \in Files |-> IF f = "indx" THEN 1
                              ELSE IF HasVlog THEN 2 ELSE 0],
     content |-> <<BuiltBlocks, <<>>>>,
     shared |-> <<{}, {}>>, excl |-> <<{}, {}>>]

\* what open_file decodes from the meta block of that index file: the Stats
\* item and the Root item, the position of the last block before the meta
BuiltMeta == [stats |-> builder.stats, root |-> BytesOf(BuiltBlocks) - 1]

\* the Index values that exist, other than h
OthersAlive(h) == \E g \in Handles \ {h} : handles[g].state = "open"

\* an open file description that the clone would share with its origin
FdOf_OfOrigin(h) == IF handles[h].via = "clone" THEN handles[h].of ELSE h

\* the open file description behind the index file of the Index h: its own,
\* since open_file and try_clone both open the path with OpenOptions
FdOf(h) == h

\* $fd.read(&mut buf) of one block at the descriptor's offset: the block
\* that starts there, or none when fewer bytes are left (Fatal)
ReadFile(f, ino, off) ==
    LET c == f.content[ino]
        at == {i \in 1..Len(c) : BytesOf(SubSeq(c, 1, i - 1)) = off}
    IN IF at = {} THEN 0 ELSE c[CHOOSE i \in at : TRUE].id

\* the Index that open_file / try_clone is making once Reader::from_root has
\* read the root block: both files opened for reading by path, the root
\* block read through the new descriptor
Opening(f, via, of, meta) ==
    [NoIndex EXCEPT
       !.state = "opening", !.via = via, !.of = of,
       !.ino = f.path["indx"], !.vino = f.path["vlog"],
       !.meta = meta,
       !.rd = [root |-> ReadFile(f, f.path["indx"], meta.root),
               m_blocksize |-> meta.stats.m_blocksize,
               z_blocksize |-> meta.stats.z_blocksize],
       !.off = meta.root + 1]

\* open_file / try_clone up to the end of Reader::from_root's read of the
\* root block (the path is taken as found; the recognition of file names
\* is not part of this); nothing is locked yet
OpenFiles(h, via, of, meta) ==
    /\ handles[h].state = "none"
    /\ fs.path["indx"] # 0
    /\ HasVlog => fs.path["vlog"] # 0
    /\ handles' = [handles EXCEPT ![h] = Opening(fs, via, of, meta)]
    /\ UNCHANGED <<fs, flusher, chan, worker, purger, hist>>
    /\ UNCHANGED bvars
    /\ UNCHANGED xvars

\* Index::open / Index::open_file: stats and root come from the meta block
IndexOpen(h) == OpenFiles(h, "open", 0, BuiltMeta)

\* a try_clone that would take the root of an empty index
IndexTryClone_RootZero(g, h) ==
    /\ g # h
    /\ handles[g].state = "open"
    /\ OpenFiles(h, "clone", g, [handles[g].meta EXCEPT !.root = 0])

\* Index::try_clone of the Index g: self.stats.clone(), Arc::clone of the
\* metas, root from self.metas[3]
IndexTryClone(g, h) ==
    /\ g # h
    /\ handles[g].state = "open"
    /\ OpenFiles(h, "clone", g, handles[g].meta)

\* lock_shared on the inode, if there is one
LockIfAny(f, ino, who) == IF ino = 0 THEN f ELSE LockShared(f, ino, who)
UnlockIfAny(f, ino, who) == IF ino = 0 THEN f ELSE Unlock(f, ino, who)

\* Reader::from_root: index.lock_shared(), vlog.lock_shared(); the Index is
\* returned
IndexLock(h) ==
    /\ handles[h].state = "opening"
    /\ CanLockShared(fs, handles[h].ino)
    /\ handles[h].vino # 0 => CanLockShared(fs, handles[h].vino)
    /\ fs' = LockIfAny(LockShared(fs, handles[h].ino, h), handles[h].vino, h)
    /\ handles' = [handles EXCEPT ![h].state = "open"]
    /\ UNCHANGED <<flusher, chan, worker, purger, hist>>
    /\ UNCHANGED bvars
    /\ UNCHANGED xvars

\* Reader::from_root returns an error from index.lock_shared()? or, with
\* the index file locked, from vlog.lock_shared()?: no Reader is made, the
\* two files it was given are dropped, and a closed file holds no lock
IndexLockFails(h) ==
    /\ handles[h].state = "opening"
    /\ fs' = UnlockIfAny(Unlock(LockShared(fs, handles[h].ino, h),
                                handles[h].ino, h),
                         handles[h].vino, h)
    /\ handles' = [handles EXCEPT ![h] =
                     [NoIndex EXCEPT !.state = "failed", !.last = "IOError",
                                     !.via = handles[h].via]]
    /\ UNCHANGED <<flusher, chan, worker, purger, hist>>
    /\ UNCHANGED bvars
    /\ UNCHANGED xvars

\* read_file!, first half: $fd.seek(SeekFrom::Start(fpos)) on the index
\* file of the Index h, for a block of the file
ReadFileSeek(h, fpos) ==
    /\ handles[h].state = "open"
    /\ handles[h].pc = "idle"
    /\ ReadFile(fs, handles[h].ino, fpos) # 0
    /\ handles' = [handles EXCEPT ![h].pc = "sought", ![h].want = fpos,
                                  ![FdOf(h)].off = fpos]
    /\ UNCHANGED <<fs, flusher, chan, worker, purger, hist>>
    /\ UNCHANGED bvars
    /\ UNCHANGED xvars

\* read_file!, second half: $fd.read(&mut buf) returns the block at the
\* descriptor's offset and moves the offset past it
ReadFileRead(h) ==
    /\ handles[h].state = "open"
    /\ handles[h].pc = "sought"
    /\ handles' = [handles EXCEPT
                     ![h].pc = "idle",
                     ![h].data = ReadFile(fs, handles[h].ino,
                                          handles[FdOf(h)].off),
                     ![FdOf(h)].off = @ + 1]
    /\ UNCHANGED <<fs, flusher, chan, worker, purger, hist>>
    /\ UNCHANGED bvars
    /\ UNCHANGED xvars

\* a drop that would leave the value-log file locked
DropReader_IndexOnly(f, h) == Unlock(f, handles[h].ino, h)

\* Reader::drop: both files unlocked
DropReader(f, h) ==
    UnlockIfAny(Unlock(f, handles[h].ino, h), handles[h].vino, h)

\* the Index goes out of scope, or Index::close(self); Reader::drop, first
\* statement: self.index.unlock().  Without a value log that is all of it
IndexDrop(h) ==
    /\ handles[h].state = "open"
    /\ handles[h].pc = "idle"
    /\ fs' = Unlock(fs, handles[h].ino, h)
    /\ handles' = [handles EXCEPT ![h] =
                     IF handles[h].vino = 0 THEN NoIndex
                     ELSE [@ EXCEPT !.state = "dropping"]]
    /\ UNCHANGED <<flusher, chan, worker, purger, hist>>
    /\ UNCHANGED bvars
    /\ UNCHANGED xvars

\* Reader::drop, second statement: vlog.unlock(); the Index is gone
IndexDropVlog(h) ==
    /\ handles[h].state = "dropping"
    /\ fs' = Unlock(fs, handles[h].vino, h)
    /\ handles' = [handles EXCEPT ![h] = NoIndex]
    /\ UNCHANGED <<flusher, chan, worker, purger, hist>>
    /\ UNCHANGED bvars
    /\ UNCHANGED xvars

\* purge_file(file): open_file_r, try_lock_exclusive, and on Ok
\* remove_file and unlock, else Retry
PurgeFile(f, file) ==
    IF f.path[file] = 0 THEN [fs |-> f, res |-> "IOError"]
    ELSE IF CanLockExclusive(f, f.path[file])
    THEN [fs |-> RemoveFile(f, file), res |-> "Ok"]
    ELSE [fs |-> f, res |-> "Retry"]

\* Index::purge(self): purge_file(index file)?, then purge_file(value-log
\* file)? when the index has one; self, with its reader, is dropped when
\* purge returns
IndexPurge(h) ==
    /\ handles[h].state = "open"
    /\ handles[h].pc = "idle"
    /\ LET r1 == PurgeFile(fs, "indx")
           r2 == IF r1.res = "Ok" /\ HasVlog THEN PurgeFile(r1.fs, "vlog") ELSE r1
       IN /\ fs' = DropReader(r2.fs, h)
          /\ handles' = [handles EXCEPT ![h] =
                           [NoIndex EXCEPT !.state = "purged", !.last = r2.res,
                                           !.others = OthersAlive(h)]]
    /\ UNCHANGED <<flusher, chan, worker, purger, hist>>
    /\ UNCHANGED bvars
    /\ UNCHANGED xvars

\* a finished build of any configuration, and no Index yet
PurgeInit ==
    /\ \E c \in VersionConfigs : BuilderIdleWith(c)
    /\ fs = BuiltFiles
    /\ handles = [h \in Handles |-> NoIndex]
    /\ flusher = NoFlusher
    /\ chan = NoChan
    /\ worker = NoWorker
    /\ purger = NoPurger
    /\ hist = NoHist

PurgeNext ==
    \/ \E h \in Handles : IndexOpen(h)
    \/ \E g \in Handles, h \in Handles : IndexTryClone(g, h)
    \/ \E h \in Handles : IndexLock(h)
    \/ \E h \in Handles : IndexLockFails(h)
    \/ \E h \in Handles, fpos \in 0..(BytesOf(BuiltBlocks) - 1) :
          ReadFileSeek(h, fpos)
    \/ \E h \in Handles : ReadFileRead(h)
    \/ \E h \in Handles : IndexDrop(h)
    \/ \E h \in Handles : IndexDropVlog(h)
    \/ \E h \in Handles : IndexPurge(h)

PurgeSpec == PurgeInit /\ [][PurgeNext]_vars

\* the files after the index was built again under the same name while the
\* Index 1 had the first build open: create_file_a has unlinked the first
\* files, which live on as inodes 1 and 2 under the locks of Index 1, and
\* the paths lead to the files of the second build
RebuiltFiles ==
    LET held == LockIfAny(LockShared(BuiltFiles, 1, 1),
                          BuiltFiles.path["vlog"], 1)
        anew == CreateFileA(held, "indx")
        both == IF HasVlog THEN CreateFileA(anew, "vlog") ELSE anew
    IN [both EXCEPT !.content[both.path["indx"]] = BuiltBlocks]

\* a finished second build under the name of an index that Index 1 has open
RebuildInit ==
    /\ \E c \in VersionConfigs : BuilderIdleWith(c)
    /\ fs = RebuiltFiles
    /\ handles = [h \in Handles |->
                    IF h = 1
                    THEN [Opening(BuiltFiles, "open", 0, BuiltMeta)
                            EXCEPT !.state = "open"]
                    ELSE NoIndex]
    /\ flusher = NoFlusher
    /\ chan = NoChan
    /\ worker = NoWorker
    /\ purger = NoPurger
    /\ hist = NoHist

RebuildSpec == RebuildInit /\ [][PurgeNext]_vars

----------------------------------------------------------------------------
(* scans.rs: a BuildScan in the hands of a caller that calls next, pushes  *)
(* back what next has just returned, and unwraps.                          *)

\* the seqno given to BuildScan::new: below and above the entries' seqnos
ScanSeqnos == {0, 5}

\* BuildScan::new(iter, seqno) over any source
ScanInit ==
    /\ source \in Sources(VersionShapes)
    /\ \E s \in ScanSeqnos :
          /\ scan = [NewScan EXCEPT !.seqno = s]
          /\ calls = [NoCalls EXCEPT !.seqno = s]
    /\ config = [z_blocksize |-> 6, m_blocksize |-> 6, delta_ok |-> TRUE,
                 value_in_vlog |-> TRUE]
    /\ seqno_arg = None
    /\ slots = [L \in Levels |-> None]
    /\ frames = [L \in Levels |-> FreshFrame]
    /\ iflush = NewFlusher
    /\ vflush = NewFlusher
    /\ builder = [phase |-> "init", root |-> 0, stats |-> NewStats(config)]
    /\ reader = NoReader
    /\ got = NoGet
    /\ iter = NoIter
    /\ metablk = NoMetaBlk
    /\ validated = NoValidated
    /\ compacted = NoCompacted
    /\ named = NoNamed
    /\ leaf = NoLeaf
    /\ fs = NoFiles
    /\ handles = NoHandles
    /\ flusher = NoFlusher
    /\ chan = NoChan
    /\ worker = NoWorker
    /\ purger = NoPurger
    /\ hist = NoHist

\* the caller calls next()
ScanCallNext ==
    /\ ~calls.done
    /\ LET r == ScanNext(scan)
       IN /\ scan' = r.scan
          /\ calls' = [calls EXCEPT
                         !.last = r.item,
                         !.pending = FALSE,
                         !.out = IF calls.pending \/ r.item = None THEN @
                                 ELSE Append(@, Unwrap(r.item)),
                         !.replayed = @ \/ calls.pending,
                         !.ended = @ \/ r.item = None]
    /\ UNCHANGED <<config, seqno_arg, source, slots, frames, iflush, vflush,
                   builder, reader, got, iter>>
    /\ UNCHANGED fvars
    /\ UNCHANGED <<metablk, validated, compacted, named, leaf>>

\* the caller calls push(entry) with the entry next() has just returned
ScanCallPush ==
    /\ ~calls.done
    /\ IsSome(calls.last)
    /\ ~calls.pending
    /\ scan' = ScanPush(scan, Unwrap(calls.last))
    /\ calls' = [calls EXCEPT !.pending = TRUE]
    /\ UNCHANGED <<config, seqno_arg, source, slots, frames, iflush, vflush,
                   builder, reader, got, iter>>
    /\ UNCHANGED fvars
    /\ UNCHANGED <<metablk, validated, compacted, named, leaf>>

\* the caller calls unwrap(): seqno, n_count and n_deleted are handed over
ScanCallUnwrap ==
    /\ ~calls.done
    /\ calls' = [calls EXCEPT !.done = TRUE]
    /\ UNCHANGED <<scan, metablk, validated, compacted, named, leaf>>
    /\ UNCHANGED <<config, seqno_arg, source, slots, frames, iflush, vflush,
                   builder, reader, got, iter>>
    /\ UNCHANGED fvars

ScanCall == ScanCallNext \/ ScanCallPush \/ ScanCallUnwrap

ScanSpec == ScanInit /\ [][ScanCall]_vars

----------------------------------------------------------------------------
(* robt.rs: the meta block, from Builder::meta_blocks to the head of       *)
(* Index::open_file.  Files and blocks are sequences of bytes here.        *)

RECURSIVE ByteOf(_, _)
\* the byte of n that stands k bytes above the least significant one
ByteOf(n, k) == IF k = 0 THEN n % 256 ELSE ByteOf(n \div 256, k - 1)

\* u64::to_be_bytes: eight bytes, the most significant first
ToBeBytes(n) == [i \in 1..8 |-> ByteOf(n, 8 - i)]

RECURSIVE BeValue(_, _)
BeValue(b, acc) ==
    IF b = <<>> THEN acc ELSE BeValue(Tail(b), acc * 256 + Head(b))

\* u64::from_be_bytes / i64::from_be_bytes of a non-negative number
FromBeBytes(b) == BeValue(b, 0)

\* the five items [AppMetadata, Stats, Bitmap, Root, Marker] that differ in
\* the application's metadata and in the root position
MetaItems ==
    {<<[t |-> "AppMetadata", v |-> a], [t |-> "Stats", v |-> 0],
       [t |-> "Bitmap", v |-> 0], [t |-> "Root", v |-> r],
       [t |-> "Marker", v |-> 0]>> : a \in {1, 2}, r \in {0, 6}}

\* the lengths of the encoded items, which grow with the metadata and the
\* bitmap: far from and next to the multiples of the marker block size
MetaLens ==
    {1, MARKER_BLOCK_SIZE - 17, MARKER_BLOCK_SIZE - 16, MARKER_BLOCK_SIZE - 15,
     MARKER_BLOCK_SIZE, 2 * MARKER_BLOCK_SIZE - 16}

\* util::into_cbor_bytes(metas) as len bytes, none of them zero, that differ
\* from one choice of items to another
EncodeMetas(items, len) ==
    [i \in 1..len |-> 1 + ((i + items[1].v + 3 * items[4].v) % 250)]

\* util::from_cbor_bytes(&block): the items whose encoding the bytes are
DecodeMetas(bytes) ==
    LET is == {it \in MetaItems : EncodeMetas(it, Len(bytes)) = bytes}
    IN IF is = {} THEN Err("FailCbor") ELSE Ok(CHOOSE it \in is : TRUE)

\* a meta block sized for the items alone, without the 16 bytes of trailer
MetaBlock_NoRoomForTrailer(block) ==
    LET len == Len(block)
        m == ComputeRootBlock(len)
    IN [i \in 1..m |->
          IF i > m - 8 THEN ToBeBytes(len)[i - (m - 8)]
          ELSE IF i > m - 16 THEN ToBeBytes(m)[i - (m - 16)]
          ELSE IF i <= len THEN block[i] ELSE 0]

\* meta_blocks from `let len = block.len()` on: m = compute_root_block(len
\* + 16), block.resize(m, 0), off = m at [m-16, m-8), len at [m-8, m)
MetaBlock(block) ==
    LET len == Len(block)
        m == ComputeRootBlock(len + 16)
    IN [i \in 1..m |->
          IF i > m - 8 THEN ToBeBytes(len)[i - (m - 8)]
          ELSE IF i > m - 16 THEN ToBeBytes(m)[i - (m - 16)]
          ELSE IF i <= len THEN block[i] ELSE 0]

\* read_file!(fd, seek, n) on a file of bytes: the n bytes from `at` on
ReadBytes(file, at, n) ==
    IF at < 0 \/ at + n > Len(file) THEN Err("Fatal")
    ELSE Ok(SubSeq(file, at + 1, at + n))

\* the head of open_file: off at End(-16), len at End(-8), len bytes at
\* End(-off), decoded as the items
ReadMetas(file) ==
    LET o == ReadBytes(file, Len(file) - 16, 8)
        l == ReadBytes(file, Len(file) - 8, 8)
    IN IF o.err # "" THEN o
       ELSE IF l.err # "" THEN l
       ELSE LET b == ReadBytes(file, Len(file) - FromBeBytes(o.val),
                               FromBeBytes(l.val))
            IN IF b.err # "" THEN b ELSE DecodeMetas(b.val)

\* a builder about to call build_flush: the index file holds the bytes of
\* the tree, the items are known
MetaInit ==
    /\ config = [z_blocksize |-> 6, m_blocksize |-> 6, delta_ok |-> TRUE,
                 value_in_vlog |-> TRUE]
    /\ source = <<>>
    /\ seqno_arg = None
    /\ scan = NewScan
    /\ slots = [L \in Levels |-> None]
    /\ frames = [L \in Levels |-> FreshFrame]
    /\ iflush = NewFlusher
    /\ vflush = NewFlusher
    /\ builder = [phase |-> "flush", root |-> 0, stats |-> NewStats(config)]
    /\ reader = NoReader
    /\ got = NoGet
    /\ iter = NoIter
    /\ calls = NoCalls
    /\ validated = NoValidated
    /\ compacted = NoCompacted
    /\ named = NoNamed
    /\ leaf = NoLeaf
    /\ metablk \in {[NoMetaBlk EXCEPT !.prefix = p, !.items = it, !.len = n] :
                      p \in {0, 6}, it \in MetaItems, n \in MetaLens}
    /\ fs = NoFiles
    /\ handles = NoHandles
    /\ flusher = NoFlusher
    /\ chan = NoChan
    /\ worker = NoWorker
    /\ purger = NoPurger
    /\ hist = NoHist

\* build_flush: the block of meta_blocks is appended to the index file
MetaBlocks ==
    /\ metablk.state = "none"
    /\ metablk' = [metablk EXCEPT
                     !.state = "written",
                     !.file = [i \in 1..metablk.prefix |-> 1] \o
                              MetaBlock(EncodeMetas(metablk.items, metablk.len))]
    /\ UNCHANGED <<calls, validated, compacted, named, leaf>>
    /\ UNCHANGED bvars
    /\ UNCHANGED fvars

\* Index::open_file reads the items back
OpenFileMetas ==
    /\ metablk.state = "written"
    /\ metablk' = [metablk EXCEPT !.state = "opened",
                                  !.read = ReadMetas(metablk.file)]
    /\ UNCHANGED <<calls, validated, compacted, named, leaf>>
    /\ UNCHANGED bvars
    /\ UNCHANGED fvars

MetaNext == MetaBlocks \/ OpenFileMetas

MetaSpec == MetaInit /\ [][MetaNext]_vars

----------------------------------------------------------------------------
(* robt.rs: Index::validate and Index::compact; scans.rs: CompactScan *)

RECURSIVE CollectEntries(_, _)
\* every item of a reader::Iter, up to None or to the first error
CollectEntries(it, acc) ==
    LET r == IterNext(it)
    IN IF r.res.tag = "none" THEN Ok(acc)
       ELSE IF r.res.tag # "some" THEN Err(r.res.tag)
       ELSE CollectEntries(r.it, Append(acc, r.res.entry))

\* the entries of the open index as Index::iter (versions = FALSE) or
\* Index::iter_versions (versions = TRUE) yields them over the full range
Entries(versions) ==
    LET it == ReaderIter(Unbounded, Unbounded, FALSE, versions)
    IN IF it.err # "" THEN it ELSE CollectEntries(it.val, <<>>)

RECURSIVE ValidateLoop(_, _, _, _, _)
\* the body of Index::validate over the items of self.iter(..): counts,
\* the running largest seqno, the key order, the deltas of the entry
\* against the running seqno; then the three tests against the stats
ValidateLoop(it, prev_key, n_count, n_deleted, seqno) ==
    LET r == IterNext(it)
        s == builder.stats
    IN IF r.res.tag = "none"
       THEN IF n_count # s.n_count THEN Err("Fatal")
            ELSE IF n_deleted # s.n_deleted THEN Err("Fatal")
            ELSE IF seqno > 0 /\ seqno > s.seqno THEN Err("Fatal")
            ELSE Ok(s)
       ELSE IF r.res.tag # "some" THEN Err(r.res.tag)
       ELSE LET entry == r.res.entry
                sq == Max(seqno, entry.seqno)
            IN IF IsSome(prev_key) /\ ~(Unwrap(prev_key) < entry.key)
               THEN Err("Fatal")
               ELSE IF \E i \in DOMAIN entry.deltas : entry.deltas[i].seqno >= sq
               THEN Err("Fatal")
               ELSE ValidateLoop(r.it, Some(entry.key), n_count + 1,
                                 n_deleted + (IF entry.deleted THEN 1 ELSE 0), sq)

\* Index::validate
Validate ==
    /\ reader.status = "open"
    /\ validated.err = "pending"
    /\ LET it == ReaderIter(Unbounded, Unbounded, FALSE, FALSE)
       IN validated' = IF it.err # "" THEN it
                       ELSE ValidateLoop(it.val, None, 0, 0, 0)
    /\ UNCHANGED <<calls, metablk, compacted, named, leaf>>
    /\ UNCHANGED bvars
    /\ UNCHANGED fvars

\* a db::Cutoff over a Bound<u64> of seqnos
Mono == [t |-> "Mono", bound |-> Unbounded]
Lsm(bound) == [t |-> "Lsm", bound |-> bound]
Tombstone(bound) == [t |-> "Tombstone", bound |-> bound]

Cutoffs ==
    {Mono, Lsm(Unbounded), Lsm(Included(1)), Lsm(Excluded(3)),
     Tombstone(Included(2))}

\* seqno n is at or below the bound of a cutoff
Cut(n, bound) ==
    \/ bound.b = "U"
    \/ bound.b = "I" /\ n <= bound.key
    \/ bound.b = "E" /\ n < bound.key

\* db::Entry::purge(cutoff) keeping deleted entries under Mono
EntryPurge_MonoKeepsDeleted(e, cutoff) ==
    LET Above(d) == ~Cut(d.seqno, cutoff.bound)
    IN IF cutoff.t = "Mono" THEN Some([e EXCEPT !.deltas = <<>>])
       ELSE IF cutoff.t = "Lsm"
       THEN IF Cut(e.seqno, cutoff.bound) THEN None
            ELSE Some([e EXCEPT !.deltas = SelectSeq(@, Above)])
       ELSE IF e.deleted /\ Cut(e.seqno, cutoff.bound) THEN None ELSE Some(e)

\* db::Entry::purge(cutoff): None when the entry is dropped
EntryPurge(e, cutoff) ==
    LET Above(d) == ~Cut(d.seqno, cutoff.bound)
    IN IF cutoff.t = "Mono"
       THEN IF e.deleted THEN None ELSE Some([e EXCEPT !.deltas = <<>>])
       ELSE IF cutoff.t = "Lsm"
       THEN IF Cut(e.seqno, cutoff.bound) THEN None
            ELSE Some([e EXCEPT !.deltas = SelectSeq(@, Above)])
       ELSE IF e.deleted /\ Cut(e.seqno, cutoff.bound) THEN None ELSE Some(e)

RECURSIVE CompactScanAll(_, _)
\* every item CompactScan::next yields over the entries es
CompactScanAll(es, cutoff) ==
    IF es = <<>> THEN <<>>
    ELSE LET e == EntryPurge(Head(es), cutoff)
         IN (IF IsSome(e) THEN <<Unwrap(e)>> ELSE <<>>) \o
            CompactScanAll(Tail(es), cutoff)

\* what the scan of Index::compact is fed: self.iter(r)? returns its
\* error, e.unwrap() panics on an item that is one
CompactRead ==
    LET it == ReaderIter(Unbounded, Unbounded, FALSE, FALSE)
    IN IF it.err # "" THEN [state |-> "failed", val |-> <<>>]
       ELSE LET all == CollectEntries(it.val, <<>>)
            IN IF all.err # "" THEN [state |-> "panic", val |-> <<>>]
               ELSE [state |-> "building", val |-> all.val]

\* the rest of Index::compact, given what the scan is fed and what
\* iter_versions yields of the old index: Builder::initial and the
\* beginning of build_index(iter, bitmap, None)
CompactFrom(cutoff, fed, from) ==
    /\ compacted' = [state |-> fed.state, cutoff |-> cutoff, from |-> from,
                     scanned |-> fed.val]
    /\ IF fed.state # "building"
       THEN UNCHANGED bvars /\ UNCHANGED validated
       ELSE /\ source' = CompactScanAll(fed.val, cutoff)
            /\ seqno_arg' = None
            /\ scan' = NewScan
            /\ slots' = [L \in Levels |-> None]
            /\ frames' = [L \in Levels |-> FreshFrame]
            /\ iflush' = NewFlusher
            /\ vflush' = IF config.value_in_vlog \/ config.delta_ok
                         THEN NewFlusher ELSE EmptyFlusher
            /\ builder' = [phase |-> "init", root |-> 0,
                           stats |-> NewStats(config)]
            /\ reader' = NoReader
            /\ validated' = NoValidated
            /\ UNCHANGED <<config, got, iter>>

\* Index::compact(config, bitmap, cutoff) up to build_index: a new builder
\* whose source is CompactScan over self.iter(r); the old index is read as
\* the new one is built, which is the same as reading it first since the
\* two have their own files.  The configuration is the old one under
\* another name.  compacted keeps the cutoff, what iter_versions yields of
\* the old index and what the scan was fed.
Compact(cutoff) ==
    /\ reader.status = "open"
    /\ compacted.state = "none"
    /\ CompactFrom(cutoff, CompactRead, Entries(TRUE))
    /\ UNCHANGED <<calls, metablk, named, leaf>>
    /\ UNCHANGED fvars

\* a source whose older versions carry seqnos d above what SourceEntry
\* gives them
Skewed(src, d) ==
    [i \in DOMAIN src |->
        [src[i] EXCEPT !.deltas = [j \in DOMAIN @ |->
                                     [@[j] EXCEPT !.seqno = @ + d]]]]

\* Builder::initial(config, meta) has run; the source may hold an older
\* version that is no older than the value
CompactInit ==
    /\ fs = NoFiles
    /\ flusher = NoFlusher
    /\ chan = NoChan
    /\ worker = NoWorker
    /\ purger = NoPurger
    /\ hist = NoHist
    /\ handles = NoHandles
    /\ config \in VersionConfigs
    /\ \E src \in Sources(VersionShapes), d \in {0, 1} : source = Skewed(src, d)
    /\ seqno_arg \in SeqnoArgs
    /\ scan = NewScan
    /\ slots = [L \in Levels |-> None]
    /\ frames = [L \in Levels |-> FreshFrame]
    /\ iflush = NewFlusher
    /\ vflush = IF config.value_in_vlog \/ config.delta_ok THEN NewFlusher
                ELSE EmptyFlusher
    /\ builder = [phase |-> "init", root |-> 0, stats |-> NewStats(config)]
    /\ reader = NoReader
    /\ got = NoGet
    /\ iter = NoIter
    /\ calls = NoCalls
    /\ metablk = NoMetaBlk
    /\ validated = NoValidated
    /\ compacted = NoCompacted
    /\ named = NoNamed
    /\ leaf = NoLeaf

CompactNext ==
    \/ BuildStart
    \/ BuildStep
    \/ BuildFlush
    \/ Open
    \/ Validate
    \/ \E cutoff \in Cutoffs : Compact(cutoff)

CompactSpec == CompactInit /\ [][CompactNext]_vars

----------------------------------------------------------------------------
(* files.rs: IndexFileName and VlogFileName.  Strings are sequences of     *)
(* characters.                                                              *)

MaxName == 3

\* the characters of the names: a letter, and those that paths, extensions
\* and the suffixes are made with
Chars == {"a", "-", ".", "/"}

Names == UNION {[1..n -> Chars] : n \in 0..MaxName}

\* "-robt.indx" and "-robt.vlog"
Suffix(file) ==
    <<"-", "r", "o", "b", "t", ".">> \o
    (IF file = "indx" THEN <<"i", "n", "d", "x">> ELSE <<"v", "l", "o", "g">>)

\* format!("{}-robt.indx", name) / format!("{}-robt.vlog", name)
FileNameFrom(file, name) == name \o Suffix(file)

\* str::ends_with
EndsWith(s, suf) ==
    Len(s) >= Len(suf) /\ SubSeq(s, Len(s) - Len(suf) + 1, Len(s)) = suf

\* str::strip_suffix
StripSuffix(s, suf) ==
    IF EndsWith(s, suf) THEN Some(SubSeq(s, 1, Len(s) - Len(suf))) ELSE None

RECURSIVE SplitPath(_, _, _)
\* the pieces of a path between its separators, empty ones included
SplitPath(s, cur, acc) ==
    IF s = <<>> THEN Append(acc, cur)
    ELSE IF Head(s) = "/" THEN SplitPath(Tail(s), <<>>, Append(acc, cur))
    ELSE SplitPath(Tail(s), Append(cur, Head(s)), acc)

\* Path::components without a root: empty pieces and "." are dropped, but
\* for a "." that begins the path
Components(path) ==
    LET ps == SplitPath(path, <<>>, <<>>)
        keep == {i \in DOMAIN ps :
                    /\ ps[i] # <<>>
                    /\ ps[i] = <<".">> => i = 1}
    IN [j \in 1..Cardinality(keep) |->
           ps[CHOOSE i \in keep : Cardinality({k \in keep : k <= i}) = j]]

\* Path::file_name: the last component if it is a normal one
PathFileName(path) ==
    LET cs == Components(path)
    IN IF cs = <<>> THEN None
       ELSE IF cs[Len(cs)] \in {<<".">>, <<".", ".">>} THEN None
       ELSE Some(cs[Len(cs)])

\* Path::file_stem of a file name: the part before the last dot, the whole
\* name if it has no dot or only begins with one
PathFileStem(fname) ==
    LET dots == {i \in DOMAIN fname : fname[i] = "."}
        last == CHOOSE i \in dots : \A j \in dots : j <= i
    IN IF fname = <<".", ".">> \/ dots = {} THEN fname
       ELSE IF last = 1 THEN fname
       ELSE SubSeq(fname, 1, last - 1)

\* String::try_from(IndexFileName) / String::try_from(VlogFileName): the
\* closure gives the file stem of a file name that ends with the suffix,
\* and the suffix is stripped from it and unwrapped
TryFromFileName(file, fname) ==
    LET fn == PathFileName(fname)
    IN IF fn = None \/ ~EndsWith(Unwrap(fn), Suffix(file)) THEN Err("InvalidFile")
       ELSE LET stem == PathFileStem(Unwrap(fn))
                name == StripSuffix(stem, Suffix(file))
            IN IF name = None THEN Err("panic") ELSE Ok(Unwrap(name))

\* a logical name or a path, the way the file name is to be made of it, and
\* the file whose try_from is to read it
NameInit ==
    /\ config = [z_blocksize |-> 6, m_blocksize |-> 6, delta_ok |-> TRUE,
                 value_in_vlog |-> TRUE]
    /\ source = <<>>
    /\ seqno_arg = None
    /\ scan = NewScan
    /\ slots = [L \in Levels |-> None]
    /\ frames = [L \in Levels |-> FreshFrame]
    /\ iflush = NewFlusher
    /\ vflush = NewFlusher
    /\ builder = [phase |-> "init", root |-> 0, stats |-> NewStats(config)]
    /\ reader = NoReader
    /\ got = NoGet
    /\ iter = NoIter
    /\ calls = NoCalls
    /\ metablk = NoMetaBlk
    /\ validated = NoValidated
    /\ compacted = NoCompacted
    /\ leaf = NoLeaf
    /\ fs = NoFiles
    /\ handles = NoHandles
    /\ flusher = NoFlusher
    /\ chan = NoChan
    /\ worker = NoWorker
    /\ purger = NoPurger
    /\ hist = NoHist
    /\ \E f \in Files, m \in Files \cup {"raw"}, n \in Names :
          named = [NoNamed EXCEPT !.file = f, !.made = m, !.name = n]

\* IndexFileName::from(name), VlogFileName::from(name), or the path that
\* the caller of Index::open_file gives
MakeFileName ==
    /\ named.state = "none"
    /\ named' = [named EXCEPT
                   !.state = "made",
                   !.fname = IF named.made = "raw" THEN named.name
                             ELSE FileNameFrom(named.made, named.name)]
    /\ UNCHANGED <<calls, metablk, validated, compacted, leaf>>
    /\ UNCHANGED bvars
    /\ UNCHANGED fvars

\* String::try_from(file_name)
StringTryFrom ==
    /\ named.state = "made"
    /\ named' = [named EXCEPT !.state = "done",
                              !.back = TryFromFileName(named.file, named.fname)]
    /\ UNCHANGED <<calls, metablk, validated, compacted, leaf>>
    /\ UNCHANGED bvars
    /\ UNCHANGED fvars

NameNext == MakeFileName \/ StringTryFrom

NameSpec == NameInit /\ [][NameNext]_vars

----------------------------------------------------------------------------
(* build.rs BuildZZ::next, flush.rs: one step of BuildZZ taken apart.  The  *)
(* builder posts the value-log bytes, the thread of the value-log file     *)
(* writes them and replies, the builder posts the leaf, the thread of the  *)
(* index file writes it and replies, and only then next() returns.         *)
(* vflush.data and iflush.data are what was posted; leaf.vdone and         *)
(* leaf.idone count how much of them the threads have written.             *)

\* a request that would return as soon as the block is in the channel
Replied_OnceEnqueued(done, f) == TRUE

\* tx.request(data) has returned: the thread has written every block
\* posted to it and has sent the position after the last of them
Replied(done, f) == done = Len(f.data)

\* a build over one block size, with and without a value log
OrderInit ==
    /\ config \in VersionConfigs
    /\ source \in Sources(VersionShapes)
    /\ seqno_arg = None
    /\ scan = NewScan
    /\ slots = [L \in Levels |-> None]
    /\ frames = [L \in Levels |-> FreshFrame]
    /\ iflush = NewFlusher
    /\ vflush = IF config.value_in_vlog \/ config.delta_ok
                THEN NewFlusher ELSE EmptyFlusher
    /\ builder = [phase |-> "init", root |-> 0, stats |-> NewStats(config)]
    /\ reader = NoReader
    /\ got = NoGet
    /\ iter = NoIter
    /\ calls = NoCalls
    /\ metablk = NoMetaBlk
    /\ validated = NoValidated
    /\ compacted = NoCompacted
    /\ named = NoNamed
    /\ leaf = NoLeaf
    /\ fs = NoFiles
    /\ handles = NoHandles
    /\ flusher = NoFlusher
    /\ chan = NoChan
    /\ worker = NoWorker
    /\ purger = NoPurger
    /\ hist = NoHist

\* BuildZZ::next has returned z.item to the level above, which goes on up
\* to the next BuildZZ::next or to the return of the topmost level; every
\* flush of a level above has returned too
ZZReturns(z, q) ==
    /\ scan' = q.scan
    /\ slots' = q.slots
    /\ frames' = q.frames
    /\ iflush' = q.iflush
    /\ vflush' = q.vflush
    /\ builder' = IF q.panicked THEN [builder EXCEPT !.phase = "panic"]
                  ELSE IF q.returned THEN AfterTree(q)
                  ELSE builder
    /\ leaf' = [leaf EXCEPT !.pc = "idle", !.held = <<>>,
                            !.idone = Len(q.iflush.data)]

\* BuildZZ::next from its start to self.vflush.borrow_mut().flush(vblock)
\* having sent vblock; an exhausted source returns None at once
ZZFlushVlogOf(z) ==
    IF z.item = None
    THEN ZZReturns(z, IF z.p.panicked THEN z.p ELSE Deliver(z.p, 1, None))
    ELSE /\ vflush' = z.p.vflush
         /\ leaf' = [leaf EXCEPT !.pc = "vlog", !.held = z]
         /\ UNCHANGED <<scan, slots, frames, iflush, builder>>

ZZFlushVlog ==
    /\ builder.phase = "tree"
    /\ leaf.pc = "idle"
    /\ Len(iflush.data) < MaxBlocks
    /\ ZZFlushVlogOf(BuildZZNext(Pipeline))
    /\ UNCHANGED <<config, seqno_arg, source, reader, got, iter>>
    /\ UNCHANGED fvars
    /\ UNCHANGED <<calls, metablk, validated, compacted, named>>

\* thread_flush of the value-log file: write_file!(fd, &data, ..) of the
\* request received, then res_tx.send(fpos)
VlogWrite ==
    /\ leaf.vdone < Len(vflush.data)
    /\ leaf' = [leaf EXCEPT !.vdone = Len(vflush.data)]
    /\ UNCHANGED bvars
    /\ UNCHANGED fvars
    /\ UNCHANGED <<calls, metablk, validated, compacted, named>>

\* vflush.flush(vblock) has returned; self.iflush.borrow_mut().flush(zblock)
\* sends zblock
ZZFlushIndex ==
    /\ leaf.pc = "vlog"
    /\ Replied(leaf.vdone, vflush)
    /\ iflush' = leaf.held.p.iflush
    /\ leaf' = [leaf EXCEPT !.pc = "indx"]
    /\ UNCHANGED <<config, seqno_arg, source, scan, slots, frames, vflush,
                   builder, reader, got, iter>>
    /\ UNCHANGED fvars
    /\ UNCHANGED <<calls, metablk, validated, compacted, named>>

\* thread_flush of the index file: one block written, the reply sent
IndexWrite ==
    /\ leaf.idone < Len(iflush.data)
    /\ leaf' = [leaf EXCEPT !.idone = @ + 1]
    /\ UNCHANGED bvars
    /\ UNCHANGED fvars
    /\ UNCHANGED <<calls, metablk, validated, compacted, named>>

\* iflush.flush(zblock) has returned: Some(Ok((first_key, fpos)))
ZZReturn ==
    /\ leaf.pc = "indx"
    /\ Replied(leaf.idone, iflush)
    /\ ZZReturns(leaf.held, Deliver([leaf.held.p EXCEPT !.iflush = iflush,
                                                        !.vflush = vflush],
                                    1, leaf.held.item))
    /\ UNCHANGED <<config, seqno_arg, source, reader, got, iter>>
    /\ UNCHANGED fvars
    /\ UNCHANGED <<calls, metablk, validated, compacted, named>>

OrderNext ==
    \/ BuildStart
    \/ ZZFlushVlog
    \/ VlogWrite
    \/ ZZFlushIndex
    \/ IndexWrite
    \/ ZZReturn

OrderSpec == OrderInit /\ [][OrderNext]_vars

----------------------------------------------------------------------------

(* What the source says of an index, for the properties below. *)

SourceKeys == {source[i].key : i \in 1..Len(source)}
SourceKeySeq == [i \in 1..Len(source) |-> source[i].key]
SourceAt(k) == source[CHOOSE i \in 1..Len(source) : source[i].key = k]

\* a source entry as a read without versions returns it
Latest(e) == [e EXCEPT !.deltas = <<>>]

KeysOf(out) == [i \in 1..Len(out) |-> out[i].key]

\* k lies inside (lo, hi)
InRange(lo, hi, k) ==
    /\ lo.b = "U" \/ (lo.b = "I" /\ k >= lo.key) \/ (lo.b = "E" /\ k > lo.key)
    /\ hi.b = "U" \/ (hi.b = "I" /\ k <= hi.key) \/ (hi.b = "E" /\ k < hi.key)

RECURSIVE Within(_, _, _)
\* the keys of the sequence ks that lie inside (lo, hi), in order
Within(ks, lo, hi) ==
    IF ks = <<>> THEN <<>>
    ELSE (IF InRange(lo, hi, Head(ks)) THEN <<Head(ks)>> ELSE <<>>)
         \o Within(Tail(ks), lo, hi)

\* the iteration has ended: None was returned, or an error
IterEnded == iter.status \notin {"none", "running"}
FullForward == iter.lo = Unbounded /\ iter.hi = Unbounded /\ ~iter.reverse

RECURSIVE Drain(_, _)
\* a caller's loop over Iter::next: the keys yielded up to None or an error
Drain(it, keys) ==
    LET r == IterNext(it)
    IN IF r.res.tag = "some" THEN Drain(r.it, Append(keys, r.res.entry.key))
       ELSE [status |-> IF r.res.tag = "none" THEN "done" ELSE r.res.tag,
             keys |-> keys]

\* Reader::iter(range, reverse, versions) run to its end
Collect(lo, hi, reverse, versions) ==
    LET r == ReaderIter(lo, hi, reverse, versions)
    IN IF r.err # "" THEN [status |-> r.err, keys |-> <<>>]
       ELSE Drain(r.val, <<>>)

----------------------------------------------------------------------------
(* Properties. *)

\* C1: Index::get(k) returns the source's entry for every key k of the
\* source and a KeyNotFound error for every key k that is not in the source.
C1_GetReturnsSourceEntry ==
    (got.status # "none" /\ ~got.versions) =>
        IF got.key \in SourceKeys
        THEN got.status = "ok" /\ got.entry = Latest(SourceAt(got.key))
        ELSE got.status = "KeyNotFound"

\* C2: a full forward scan iter(..) of a built index yields exactly the keys
\* of the source, each once and in strictly ascending order.
C2_FullScanYieldsSourceKeys ==
    (FullForward /\ IterEnded) =>
        (iter.status = "done" /\ KeysOf(iter.out) = SourceKeySeq)

\* C3: for every range with Unbounded, Included or Excluded bounds, forward
\* iteration yields exactly the stored keys inside the range, ascending, and
\* then None.
C3_ForwardRangeYieldsKeysInside ==
    (~iter.reverse /\ IterEnded) =>
        (iter.status = "done"
         /\ KeysOf(iter.out) = Within(SourceKeySeq, iter.lo, iter.hi))

\* C4: for every range, reverse(range) yields the keys that iter(range)
\* yields, in the opposite order.
C4_ReverseMirrorsForward ==
    (iter.reverse /\ IterEnded) =>
        KeysOf(iter.out) =
            Reverse(Collect(iter.lo, iter.hi, FALSE, iter.versions).keys)

\* C5: stats.n_count equals the number of entries a full scan yields and
\* stats.n_deleted the number of those entries that are marked deleted.
C5_CountsMatchFullScan ==
    (FullForward /\ IterEnded) =>
        /\ Len(iter.out) = builder.stats.n_count
        /\ Cardinality({i \in 1..Len(iter.out) : iter.out[i].deleted})
              = builder.stats.n_deleted

\* the blocks posted to the index file before the meta block
TreeBlocks == {i \in 1..Len(iflush.data) : iflush.data[i].kind # "meta"}

\* the blocks of the index file that start at fpos
BlocksAt(fpos) == {i \in TreeBlocks : iflush.data[i].fpos = fpos}

\* C6: in every built index stats.seqno is greater than or equal to the
\* seqno of every entry stored in it, whatever seqno argument (None or
\* Some(s)) build_index was given.
C6_StatsSeqnoCoversEntries ==
    builder.phase = "built" =>
        \A i \in TreeBlocks : \A j \in 1..Len(iflush.data[i].entries) :
            LET e == iflush.data[i].entries[j]
            IN e.t = "ZZ" =>
                  /\ e.value.seqno <= builder.stats.seqno
                  /\ \A d \in 1..Len(e.deltas) :
                        e.deltas[d].seqno <= builder.stats.seqno

\* C7: every block posted before the meta block has length exactly
\* z_blocksize when a leaf and m_blocksize when intermediate, and its
\* encoded entries plus the break marker never exceed that length, so the
\* resize never truncates.
C7_BlocksHaveConfiguredSize ==
    \A i \in TreeBlocks :
        LET b == iflush.data[i]
        IN /\ b.len = IF b.kind = "Z" THEN config.z_blocksize
                      ELSE config.m_blocksize
           /\ b.used <= b.len

\* C8: for every MM or MZ entry (key, fpos) written by the builder, the
\* block that starts at fpos has a first entry whose key equals key.
C8_SeparatorIsFirstKeyOfChild ==
    \A i \in TreeBlocks : \A j \in 1..Len(iflush.data[i].entries) :
        LET e == iflush.data[i].entries[j]
        IN e.t \in {"MM", "MZ"} =>
              /\ BlocksAt(e.fpos) # {}
              /\ \A c \in BlocksAt(e.fpos) :
                    /\ iflush.data[c].entries # <<>>
                    /\ iflush.data[c].entries[1].key = e.key

\* C9: every block the builder writes to the index file contains at least
\* one entry, for every source and every block-size configuration.
C9_NoEmptyBlock ==
    \A i \in TreeBlocks : iflush.data[i].entries # <<>>

\* the entry BuildScan::next hands out next, if any
Ahead ==
    IF IsSome(scan.entry) THEN scan.entry
    ELSE IF scan.pos <= Len(source) THEN Some(source[scan.pos])
    ELSE None

\* the leaf encoding of e does not fit in an empty block
Oversize(e) ==
    LET d == IF ~config.delta_ok THEN DrainDeltas(e) ELSE e
        ze == IntoReference(d, 0, config.value_in_vlog).entry
    IN HeaderLen + ZEntryLen(ze) > BlockSize(config.z_blocksize)

OversizeAhead == IsSome(Ahead) /\ Oversize(Unwrap(Ahead))

\* C10: when the source holds an entry whose encoded form is larger than
\* the block size, build_index ends with an Invalid error: the step of the
\* build that meets the entry leaves the builder in that error.
C10_OversizeEntryIsInvalid ==
    [][(builder.phase = "tree" /\ OversizeAhead) => builder'.phase = "invalid"]_vars

----------------------------------------------------------------------------
(* A source that fits in a single leaf *)

\* the encoded length of source entry e as BuildZZ::next packs it
LeafLen(e) ==
    ZEntryLen(IntoReference(IF ~config.delta_ok THEN DrainDeltas(e) ELSE e,
                            0, config.value_in_vlog).entry)

RECURSIVE SumLeafLen(_)
SumLeafLen(es) ==
    IF es = <<>> THEN 0 ELSE LeafLen(Head(es)) + SumLeafLen(Tail(es))

\* a source that is not empty and whose entries, with the array marker and
\* the break, fit in one block of z_blocksize bytes
FitsOneLeaf ==
    /\ source # <<>>
    /\ HeaderLen + SumLeafLen(source) <= BlockSize(config.z_blocksize)

----------------------------------------------------------------------------
(* The value log as a file of bytes *)

RECURSIVE SegOffset(_)
\* the file offset of the i-th segment appended to the value log, which
\* starts empty: the bytes of the segments before it
SegOffset(i) == IF i = 1 THEN 0 ELSE SegOffset(i - 1) + vflush.data[i - 1].len

\* the length of the value-log file
VlogLen ==
    IF vflush.data = <<>> THEN 0
    ELSE SegOffset(Len(vflush.data)) + vflush.data[Len(vflush.data)].len

\* the bytes at [fpos, fpos + length) lie in the file and are exactly the
\* encoding of `payload` as a value or as a delta
RefersTo(fpos, length, kind, payload) ==
    /\ fpos + length <= VlogLen
    /\ \E i \in 1..Len(vflush.data) :
          /\ SegOffset(i) = fpos
          /\ vflush.data[i].len = length
          /\ vflush.data[i].kind = kind
          /\ vflush.data[i].payload = payload

\* the leaves written so far
Leaves == {i \in TreeBlocks : iflush.data[i].kind = "Z"}

\* C12: for every leaf entry written by the builder, each value or delta
\* reference {fpos, length} lies within the value log and the bytes at
\* [fpos, fpos + length) are the encoding of that value or delta of the
\* source entry; this holds for every leaf, also one that begins with an
\* entry pushed back from the leaf before it.
C12_ReferencesPointAtPayload ==
    \A b \in Leaves : \A j \in 1..Len(iflush.data[b].entries) :
        LET ze == iflush.data[b].entries[j]
            e == SourceAt(ze.key)
        IN /\ ~ze.value.native =>
                RefersTo(ze.value.fpos, ze.value.length, "value", e.value)
           /\ \A d \in 1..Len(ze.deltas) :
                RefersTo(ze.deltas[d].fpos, ze.deltas[d].length, "delta",
                         e.deltas[d].diff)

\* a build has finished whose second leaf begins with a pushed-back entry
\* that holds a value reference and a delta reference
C12_Witness ==
    /\ builder.phase = "built"
    /\ \E b \in Leaves :
          /\ b > 1
          /\ iflush.data[b].entries # <<>>
          /\ ~iflush.data[b].entries[1].value.native
          /\ iflush.data[b].entries[1].deltas # <<>>
          /\ iflush.data[b].entries[1].value.fpos > 0

----------------------------------------------------------------------------
(* Properties of the Flusher *)

\* the file at the path begins with the blocks of `content`
BeginsWith(file, content) ==
    /\ fs.path[file] # 0
    /\ Len(fs.content[fs.path[file]]) >= Len(content)
    /\ SubSeq(fs.content[fs.path[file]], 1, Len(content)) = content

\* C13: Builder::incremental given an existing value-log file only appends
\* to it: the value-log flusher's starting fpos (and with it stats.n_abytes)
\* equals the file's length before the build, and the bytes in [0, that
\* length) are the same afterwards as before.
C13_IncrementalAppendsToVlog ==
    (hist.by = "incremental" /\ hist.vexisted) =>
        /\ hist.vfpos = BytesOf(hist.vbefore)
        /\ BeginsWith("vlog", hist.vbefore)

\* the Flusher's file holds what it held at construction and then the
\* blocks handed to flush, whole and in the order of the calls
HoldsPosted == fs.content[worker.ino] = hist.init \o hist.posted

\* close has returned a length
ClosedOk == flusher.state = "closed" /\ flusher.ret.err = ""

\* C14: within a single Flusher the blocks appear in the file in exactly
\* the order in which flush(data) was called: once close has returned a
\* length, the file is its initial content followed by the concatenation of
\* all posted blocks in post order.
C14_FileHoldsBlocksInPostOrder ==
    ClosedOk => HoldsPosted

\* a Flusher on an existing file was closed after blocks of both lengths
C14_Witness ==
    /\ ClosedOk
    /\ hist.init # <<>>
    /\ Len(hist.posted) = MaxPosts
    /\ hist.posted[1].len # hist.posted[2].len

\* C15: after any sequence of successful flush(data) calls, to_fpos()
\* equals the file's length at construction (0 for a created file) plus the
\* sum of the lengths of all data passed to flush so far.
C15_FposIsInitialPlusPosted ==
    (flusher.state = "File" /\ flusher.pc # "waiting" /\ ~hist.flush_err) =>
        flusher.fpos = BytesOf(hist.init) + BytesOf(hist.posted)

\* two flush calls have returned on a Flusher over an existing file
C15_Witness ==
    /\ flusher.state = "File"
    /\ flusher.pc = "idle"
    /\ ~hist.flush_err
    /\ hist.init # <<>>
    /\ Len(hist.posted) = 2

\* the block of the flush call in progress is in the queue, or in the
\* worker's hand and not yet written
Unwritten == chan.queue # <<>> \/ worker.pc = "write"

C17_NoExclusiveLockWhileFlusherLives ==
    (flusher.state = "File" /\ worker.pc # "done") =>
        fs.excl[worker.ino] = {}

\* C18: close returns only after the worker has written every block posted
\* before close, synced the file and released its shared lock, and the
\* length it returns equals the final file length, the initial length plus
\* all posted bytes.
C18_CloseReturnsAfterWorkerDone ==
    ClosedOk =>
        /\ worker.pc = "done"
        /\ HoldsPosted
        /\ worker.synced
        /\ "worker" \notin fs.shared[worker.ino]
        /\ flusher.ret.val = BytesOf(fs.content[worker.ino])
        /\ flusher.ret.val = BytesOf(hist.init) + BytesOf(hist.posted)

\* close has returned the length of a file that was not empty before
C18_Witness ==
    /\ ClosedOk
    /\ hist.init # <<>>
    /\ Len(hist.posted) = 2
    /\ flusher.ret.val > BytesOf(hist.init)

\* C19: if a write by the worker fails or is short, the worker stops, no
\* block posted later is appended to the file, and close returns that error
\* instead of a file length.
C19_WriteFailureStopsWorker ==
    hist.wfail =>
        /\ worker.pc = "done"
        /\ worker.result.err \in {"IOError", "Fatal"}
        /\ fs.content[worker.ino] = hist.at_failure
        /\ flusher.state = "closed" => flusher.ret = worker.result

\* after a short write a later block was handed to flush, and close returned
C19_Witness ==
    /\ hist.wfail
    /\ flusher.state = "closed"
    /\ worker.result.err = "Fatal"
    /\ Len(hist.posted) > Len(fs.content[worker.ino]) - Len(hist.init) + 1

----------------------------------------------------------------------------
(* Properties of purge *)

Sole(h) ==
    /\ \A g \in Handles \ {h} :
          handles[g].state \notin {"open", "opening", "dropping"}
    /\ flusher.state = "unbuilt"

\* C21: Index::purge on an Index whose files no other reader, clone or
\* flusher holds open takes the exclusive lock on the index file and on the
\* value-log file, unlinks both and returns Ok.
C21_SolePurgeUnlinksBoth ==
    [][\A h \in Handles :
          (IndexPurge(h) /\ Sole(h)) =>
              /\ handles'[h].last = "Ok"
              /\ fs'.path["indx"] = 0
              /\ fs'.path["vlog"] = 0]_vars

\* the locks the Index h holds, on any file
LocksOf(h) ==
    {i \in 1..Len(fs.content) : h \in fs.shared[i] \cup fs.excl[i]}

\* C23: an Index holds a shared lock on its index file and, when it has
\* one, on its value-log file from the return of open, open_file or
\* try_clone until it is dropped; dropping it releases both; and an open
\* that fails leaves no lock of that attempt held.
C23_SharedLocksForIndexLifetime ==
    \A h \in Handles :
        /\ handles[h].state = "open" =>
               /\ h \in fs.shared[handles[h].ino]
               /\ HasVlog => /\ handles[h].vino # 0
                             /\ h \in fs.shared[handles[h].vino]
        /\ handles[h].state \in {"none", "failed", "purged"} =>
               LocksOf(h) = {}

\* on an index with a value log, one open has failed in from_root, one Index
\* was purged and so dropped, and a third is alive with both its locks
C23_Witness ==
    /\ HasVlog
    /\ \E h \in Handles, g \in Handles, k \in Handles :
          /\ handles[h].state = "failed"
          /\ handles[g].state = "purged"
          /\ handles[k].state = "open"
          /\ LocksOf(k) = {1, 2}

\* C22: whenever purge returns a Retry error no file of the index has been
\* unlinked; in particular the index file is not deleted when only the
\* value-log file is locked by someone else.
C22_RetryUnlinksNothing ==
    [][\A h \in Handles :
          (IndexPurge(h) /\ handles'[h].last = "Retry") =>
              fs'.path = fs.path]_vars

C25_ReadsReturnTheBlockSought ==
    [][\A h \in Handles :
          ReadFileRead(h) =>
              handles'[h].data =
                  ReadFile(fs, handles[h].ino, handles[h].want)]_vars

\* an Index and a clone of it are both between the seek and the read of a
\* read_file!, at different positions of the same file
C25_Witness ==
    \E g \in Handles, h \in Handles :
        /\ handles[h].via = "clone"
        /\ handles[h].of = g
        /\ handles[g].state = "open"
        /\ handles[h].state = "open"
        /\ handles[g].ino = handles[h].ino
        /\ handles[g].pc = "sought"
        /\ handles[h].pc = "sought"
        /\ handles[g].want # handles[h].want
        /\ handles[g].data # 0

RECURSIVE CountDeleted(_), MaxSeqno(_, _)
\* the number of deleted entries among es
CountDeleted(es) ==
    IF es = <<>> THEN 0
    ELSE (IF Head(es).deleted THEN 1 ELSE 0) + CountDeleted(Tail(es))
\* the largest of n and the seqnos of es
MaxSeqno(n, es) ==
    IF es = <<>> THEN n ELSE MaxSeqno(Max(n, Head(es).seqno), Tail(es))

\* what a BuildScan has counted matches the entries it has handed out a
\* first time, which are the source's, in order
CountsMatchOut ==
    /\ calls.out = SubSeq(source, 1, Len(calls.out))
    /\ calls.ended => calls.out = source
    /\ scan.n_count = Len(calls.out)
    /\ scan.n_deleted = CountDeleted(calls.out)
    /\ scan.seqno = MaxSeqno(calls.seqno, calls.out)

\* C29: when every pushed entry is the one next() has just returned, the
\* next() after a push returns that entry and takes nothing from the
\* source; the entries come in source order, all of them by the time next()
\* returns None; and n_count, n_deleted and seqno are the number of entries
\* handed out, the number of deleted ones among them and the largest of the
\* initial seqno and theirs: an entry returned twice is counted once.
C29_PushBackIsNotCountedTwice ==
    [][/\ (ScanCallNext /\ calls.pending) =>
              /\ calls'.last = calls.last
              /\ scan'.pos = scan.pos
       /\ CountsMatchOut']_vars

\* the whole of a source with a deleted entry was handed out, some entry
\* twice, and unwrap was called
C29_Witness ==
    /\ calls.done
    /\ calls.ended
    /\ calls.replayed
    /\ Len(calls.out) >= 2
    /\ CountDeleted(calls.out) >= 1
    /\ scan.n_count = Len(source)

\* the meta block at the end of the index file, and its length
MetaBlockLen == Len(metablk.file) - metablk.prefix
MetaBlockBytes ==
    SubSeq(metablk.file, metablk.prefix + 1, Len(metablk.file))

\* C30: the meta block is a multiple of 4096 bytes long and at least 16
\* bytes longer than the encoded items; its last 16 bytes are its length
\* and then the length of the encoded items, both big-endian; the encoded
\* items stand whole before the trailer; and open_file, reading the two
\* numbers, gets back the five items that were written.
C30_MetaBlockRoundTrips ==
    /\ metablk.state \in {"written", "opened"} =>
          /\ MetaBlockLen % 4096 = 0
          /\ MetaBlockLen >= metablk.len + 16
          /\ SubSeq(MetaBlockBytes, MetaBlockLen - 15, MetaBlockLen) =
                 ToBeBytes(MetaBlockLen) \o ToBeBytes(metablk.len)
          /\ SubSeq(MetaBlockBytes, 1, metablk.len) =
                 EncodeMetas(metablk.items, metablk.len)
    /\ metablk.state = "opened" => metablk.read = Ok(metablk.items)

\* items whose encoding ends 16 bytes before a multiple of 4096, behind a
\* tree, were written and read back
C30_Witness ==
    /\ metablk.state = "opened"
    /\ metablk.len = 2 * 4096 - 16
    /\ metablk.prefix > 0
    /\ metablk.items[4].v > 0
    /\ metablk.read.err = ""

\* what iter_versions yields of the open index
Held == Entries(TRUE)

\* the index holds what validate is to verify: ascending keys, every older
\* version below its value's seqno, no seqno above stats.seqno, the counts
IndexHolds ==
    /\ Held.err = ""
    /\ LET es == Held.val
       IN /\ \A i \in 1..(Len(es) - 1) : es[i].key < es[i + 1].key
          /\ \A i \in DOMAIN es : \A j \in DOMAIN es[i].deltas :
                es[i].deltas[j].seqno < es[i].seqno
          /\ \A i \in DOMAIN es : es[i].seqno <= builder.stats.seqno
          /\ Len(es) = builder.stats.n_count
          /\ CountDeleted(es) = builder.stats.n_deleted

\* C26: validate() returns the stats exactly when the index has strictly
\* ascending keys, every delta's seqno below the seqno of the value of its
\* entry, no seqno above stats.seqno, stats.n_count entries and
\* stats.n_deleted deleted entries; and an error otherwise.
C26_ValidateExactlyWhenSound ==
    validated.err # "pending" =>
        IF IndexHolds THEN validated.err = "" /\ validated.val = builder.stats
        ELSE validated.err # ""

\* compact has read the old index and the new one is being built or built
Compacting == compacted.state = "building"
\* compact has returned the new index, opened
Compacted == Compacting /\ reader.status = "open"

\* the deltas of entry e above the bound of the cutoff
DeltasAbove(e, cutoff) ==
    LET Above(d) == ~Cut(d.seqno, cutoff.bound)
    IN SelectSeq(e.deltas, Above)

\* C27: compact feeds its scan from iter_versions, so every entry reaches
\* the cutoff together with all of its deltas; and with an Lsm(bound)
\* cutoff the new index keeps, for each entry that survives, exactly the
\* deltas of the old entry whose seqno is above the bound.
C27_CompactScansVersions ==
    /\ (Compacting /\ compacted.from.err = "") =>
          compacted.scanned = compacted.from.val
    /\ (Compacted /\ compacted.cutoff.t = "Lsm" /\ compacted.from.err = "") =>
          /\ Held.err = ""
          /\ \A i \in DOMAIN Held.val :
                \E j \in DOMAIN compacted.from.val :
                   /\ compacted.from.val[j].key = Held.val[i].key
                   /\ Held.val[i].deltas =
                         DeltasAbove(compacted.from.val[j], compacted.cutoff)

RECURSIVE MonoOf(_)
\* the entries of es that are not deleted, in order, without deltas
MonoOf(es) ==
    IF es = <<>> THEN <<>>
    ELSE (IF Head(es).deleted THEN <<>>
          ELSE <<[Head(es) EXCEPT !.deltas = <<>>]>>) \o MonoOf(Tail(es))

\* C28: after compact with the Mono cutoff the new index holds exactly the
\* entries of the old index that are not deleted, in the same key order,
\* each with its newest value and without deltas; its stats have
\* n_deleted = 0 and n_count the number of those entries.
C28_MonoKeepsLiveEntriesOnly ==
    (Compacted /\ compacted.cutoff.t = "Mono" /\ compacted.from.err = "") =>
        /\ Held.err = ""
        /\ Held.val = MonoOf(compacted.from.val)
        /\ builder.stats.n_deleted = 0
        /\ builder.stats.n_count = Len(MonoOf(compacted.from.val))

\* an old index of three entries, one deleted and another with an older
\* version, was compacted with Mono and the new index opened
C28_Witness ==
    /\ Compacted
    /\ compacted.cutoff.t = "Mono"
    /\ compacted.from.err = ""
    /\ Len(compacted.from.val) = 3
    /\ \E i \in DOMAIN compacted.from.val : compacted.from.val[i].deleted
    /\ \E i \in DOMAIN compacted.from.val :
          ~compacted.from.val[i].deleted /\ compacted.from.val[i].deltas # <<>>
    /\ Len(Held.val) = 2

\* build_index has returned, with Ok, an error or a panic
BuildEnded == builder.phase \in {"built", "invalid", "panic"}

\* C31: build_index over a source that yields no entry returns Invalid;
\* no block and no meta block is written to the index file, no root is
\* set, and nothing can be opened.
C31_EmptySourceIsInvalid ==
    (source = <<>> /\ builder.phase \notin {"init", "tree"}) =>
        /\ builder.phase = "invalid"
        /\ iflush.data = <<>> /\ iflush.fpos = 0
        /\ builder.root = 0
        /\ reader.status = "none"

\* the build over an empty source has returned
C31_Witness == source = <<>> /\ BuildEnded

\* the deltas e is to carry when read with or without versions: those the
\* source gave its key, newest first, if deltas are stored and asked for
DeltasDue(e, versions) ==
    IF versions /\ config.delta_ok /\ e.key \in SourceKeys
    THEN SourceAt(e.key).deltas
    ELSE <<>>

\* C32: get, iter and reverse return every entry with an empty delta list;
\* get_versions, iter_versions and reverse_versions return every entry
\* with all the deltas stored for it, newest first; and nothing returns a
\* delta from an index built with delta_ok = false.
C32_DeltasOnlyWithVersions ==
    /\ got.status = "ok" => got.entry.deltas = DeltasDue(got.entry, got.versions)
    /\ \A i \in DOMAIN iter.out :
          iter.out[i].deltas = DeltasDue(iter.out[i], iter.versions)

\* a scan asked with versions has returned an entry with its older
\* version, and an entry that has none
C32_Witness ==
    /\ iter.versions
    /\ \E i \in DOMAIN iter.out : iter.out[i].deltas # <<>>
    /\ \E i \in DOMAIN iter.out : iter.out[i].deltas = <<>>

\* C33: for every logical name n the file name made of it is n followed
\* by the suffix, and String::try_from of that file name is Ok(n), for the
\* index file and for the value-log file; a file name that does not end
\* with the suffix is an InvalidFile error.
C33_FileNameRoundTrips ==
    /\ (named.state # "none" /\ named.made # "raw") =>
          named.fname = named.name \o Suffix(named.made)
    /\ (named.state = "done" /\ named.made = named.file) =>
          named.back = Ok(named.name)
    /\ (named.state = "done" /\ ~EndsWith(named.fname, Suffix(named.file))) =>
          named.back = Err("InvalidFile")

\* C34: with delta_ok = false and value_in_vlog = false the builder has no
\* value-log flusher; the build of every non-empty source succeeds, no
\* value-log file is made, and the index opens and answers get and iter.
C34_BuildsWithoutValueLog ==
    (~config.delta_ok /\ ~config.value_in_vlog /\ source # <<>>) =>
        /\ ~vflush.file
        /\ BuildEnded => builder.phase = "built"
        /\ got.status \in {"none", "ok", "KeyNotFound"}
        /\ iter.status \in {"none", "running", "done"}

\* the entries Reader::get finds in the open index, by key
Found(versions) ==
    {GetLoop(reader.root, k, versions).val :
        k \in {x \in Keys : GetLoop(reader.root, x, versions).err = ""}}

\* C35: the reader reads z_blocksize bytes where it follows an MZ entry and
\* m_blocksize bytes where it follows an MM entry, in get, in the two
\* range stacks and in Iter::next; so with z_blocksize different from
\* m_blocksize a full scan, forward or reverse, ends with None and yields
\* the entries that get finds, each once.
C35_ScanReadsWhatGetReads ==
    (config.z_blocksize # config.m_blocksize /\ IterEnded
     /\ iter.lo = Unbounded /\ iter.hi = Unbounded) =>
        /\ iter.status = "done"
        /\ {iter.out[i] : i \in DOMAIN iter.out} = Found(iter.versions)
        /\ Len(iter.out) = Cardinality(Found(iter.versions))

----------------------------------------------------------------------------
(* The order of the two flushes of a leaf *)

\* the bytes at [fpos, fpos + length) are among the first n segments posted
\* to the value log
SegWithin(n, fpos, length) ==
    \E i \in 1..n : SegOffset(i) = fpos /\ vflush.data[i].len = length

\* every reference of the leaves among the first `blocks` blocks of the
\* index file lies in the first `segs` segments of the value log
RefsSegWithin(blocks, segs) ==
    \A b \in 1..blocks : iflush.data[b].kind = "Z" =>
        \A j \in 1..Len(iflush.data[b].entries) :
            LET ze == iflush.data[b].entries[j]
            IN /\ ~ze.value.native =>
                    SegWithin(segs, ze.value.fpos, ze.value.length)
               /\ \A d \in 1..Len(ze.deltas) :
                    SegWithin(segs, ze.deltas[d].fpos, ze.deltas[d].length)

\* C36: the value-log bytes of a leaf are posted before the leaf is, and at
\* every moment each reference inside a block that is already in the index
\* file points at bytes that are already in the value-log file.
C36_ValueLogBeforeLeaf ==
    /\ RefsSegWithin(Len(iflush.data), Len(vflush.data))
    /\ leaf.idone <= Len(iflush.data)
    /\ leaf.vdone <= Len(vflush.data)
    /\ RefsSegWithin(leaf.idone, leaf.vdone)

\* the index file holds a leaf with a reference while the value-log bytes
\* of the leaf after it are posted and not yet written
C36_Witness ==
    /\ leaf.pc = "vlog"
    /\ leaf.vdone < Len(vflush.data)
    /\ leaf.idone > 0
    /\ \E b \in 1..leaf.idone :
          /\ iflush.data[b].kind = "Z"
          /\ \E j \in 1..Len(iflush.data[b].entries) :
                ~iflush.data[b].entries[j].value.native

----------------------------------------------------------------------------
(* The blocks of the BuildMM levels *)

\* the blocks that a BuildMM level flushed: their entries point at
\* intermediate blocks
MMBlocks ==
    {b \in TreeBlocks : /\ iflush.data[b].kind = "M"
                        /\ iflush.data[b].entries # <<>>
                        /\ iflush.data[b].entries[1].t = "MM"}

\* C37: a BuildMM level never flushes a block that holds exactly one child
\* pointer; it hands the child's (key, fpos) up instead, so that the root
\* block has at least two entries whenever the tree has more than one leaf.
C37_NoSingleChildBlock ==
    /\ \A b \in MMBlocks : Len(iflush.data[b].entries) # 1
    /\ (builder.phase \in {"flush", "built"} /\ Cardinality(Leaves) > 1) =>
          \A b \in BlocksAt(builder.root) : Len(iflush.data[b].entries) >= 2

----------------------------------------------------------------------------
(* What is under the root when build_tree returns *)

RECURSIVE KeysUnder(_, _)
\* the keys of the leaves reached from the block at fpos, through at most
\* `depth` levels of child pointers
KeysUnder(fpos, depth) ==
    UNION {IF iflush.data[b].kind = "Z"
           THEN {iflush.data[b].entries[j].key :
                    j \in 1..Len(iflush.data[b].entries)}
           ELSE IF depth = 0 THEN {}
           ELSE UNION {KeysUnder(iflush.data[b].entries[j].fpos, depth - 1) :
                          j \in 1..Len(iflush.data[b].entries)}
           : b \in BlocksAt(fpos)}

\* C38: when build_tree has taken the root from the one next() on the
\* topmost level, the source is exhausted, the lookaside of BuildScan and
\* the entry slot of every BuildMZ/BuildMM level are empty, and every key
\* of the source is in a leaf under the root.
C38_NothingLeftOutsideTheTree ==
    builder.phase \in {"flush", "built"} =>
        /\ scan.pos > Len(source)
        /\ scan.entry = None
        /\ \A L \in Levels : slots[L] = None
        /\ SourceKeys \subseteq KeysUnder(builder.root, Top)

----------------------------------------------------------------------------
(* An open that races with a purge *)

\* the files that the Index h has open are the files at the two paths
AtPaths(f, h) ==
    /\ f.path["indx"] = handles[h].ino
    /\ handles[h].vino # 0 => f.path["vlog"] = handles[h].vino

\* C39: in every interleaving of open, open_file and try_clone with purge,
\* an open that returns successfully yields an Index whose files are still
\* linked: purge cannot take the exclusive lock and unlink between the
\* opener's open and read of the file and its shared lock.
C39_OpenedFilesAreLinked ==
    [][\A h \in Handles :
          (handles[h].state = "opening" /\ handles'[h].state = "open") =>
              AtPaths(fs', h)]_vars

----------------------------------------------------------------------------
(* Child pointers and the root position *)

\* the intermediate blocks posted so far
Intermediates == {b \in TreeBlocks : iflush.data[b].kind = "M"}

\* C40: in a built index file the fpos of every MM/MZ entry is the start
\* of a block written earlier in the file, below the start of the block
\* that holds the entry, and the root position of the meta block is the
\* start of the last block written before the meta block.
C40_PointersLeadBackwards ==
    /\ \A b \in Intermediates : \A j \in 1..Len(iflush.data[b].entries) :
          /\ iflush.data[b].entries[j].fpos < iflush.data[b].fpos
          /\ \E c \in 1..(b - 1) :
                iflush.data[c].fpos = iflush.data[b].entries[j].fpos
    /\ builder.phase = "built" =>
          /\ Len(iflush.data) >= 2
          /\ iflush.data[Len(iflush.data)].kind = "meta"
          /\ iflush.data[Len(iflush.data) - 1].fpos = builder.root

\* a built index of three levels: a leaf under an intermediate block under
\* the root
C40_Witness ==
    /\ builder.phase = "built"
    /\ \E b \in BlocksAt(builder.root) :
          /\ iflush.data[b].kind = "M"
          /\ Len(iflush.data[b].entries) >= 2
          /\ iflush.data[b].entries[1].t = "MM"

====
